---- MODULE Spec2Model ----
(***************************************************************************)
(* A model of the life calendar: the temporal model (data.ts), the grid    *)
(* layout with its span lanes (grid.ts) and the viewport camera            *)
(* (viewport.ts), driven by the handlers of app.ts.                        *)
(*                                                                         *)
(* Instants are counted in whole days since 2000-01-01 (the default birth  *)
(* date of app.ts), so that one week is 7 units; the code counts           *)
(* milliseconds, and every operation on instants (difference, floor        *)
(* division by one week, comparison) is the same at either granularity.    *)
(* An optional value (Date | null) is the empty sequence for null and a    *)
(* one-element sequence otherwise.                                         *)
(***************************************************************************)
EXTENDS Integers, Sequences, FiniteSets, TLC

VARIABLES
    clock,        \* the wall clock read by new Date() / Date.now()
    lifeData,     \* the LifeData instance under construction or last built
    nowRead,      \* the two clock readings of the last generateWeeks()
    spans,        \* app.ts: the stored spans (module variable `spans`)
    birthInput,   \* app.ts: value of the #birthdate input
    expectancyInput, \* app.ts: value of the #life-expectancy input
    screen,       \* app.screen: width and height of the canvas, in pixels
    editingSpanId, \* app.ts: module variable `editingSpanId`
    spanForm,     \* app.ts: the inputs of the span form
    cells,        \* GridLayout.cells
    spanLanes,    \* what renderSpans drew: one record per placed span
    container,    \* GridLayout.container: x, y, scale (the rendered camera)
    pointer,      \* GridLayout.pointer
    anim,         \* GridLayout.elapsedMs, yearLabel and weekLabel
    viewport,     \* the ViewportManager, once constructed
    pc,           \* position inside init() of app.ts
    last,         \* the handler that ran last, with its inputs and pre-state
    steps         \* the number of input events handled so far

vars == <<clock, lifeData, nowRead, spans, birthInput, expectancyInput, screen,
          editingSpanId, spanForm, cells, spanLanes, container, pointer, anim, viewport, pc, last,
          steps>>

dataVars == <<clock, lifeData, nowRead>>
appVars == <<spans, birthInput, expectancyInput, screen, editingSpanId, spanForm>>
gridVars == <<cells, spanLanes, container, pointer, anim>>

(***************************************************************************)
(* Bounds of the model.                                                    *)
(***************************************************************************)
MaxYears == 2
MaxSpans == 1
MaxEvents == 1

(***************************************************************************)
(* Arithmetic helpers.                                                     *)
(***************************************************************************)
Min(a, b) == IF a <= b THEN a ELSE b
Max(a, b) == IF a >= b THEN a ELSE b

\* Math.floor(a / b) for b > 0
Floor(a, b) == a \div b

\* Math.round(a / b) for b > 0: the nearest integer, halves going up
Round(a, b) == (2 * a + b) \div (2 * b)

None == << >>
Some(v) == <<v>>
IsSome(o) == Len(o) > 0
Val(o) == o[1]

(***************************************************************************)
(* data.ts: LifeData                                                       *)
(***************************************************************************)
weeksPerYear == 52
oneWeekMs == 7

\* constructor(birthDate, lifeExpectancyYears)
NewLifeData(birthDate, years) ==
    [ birthDate |-> birthDate,
      lifeExpectancyYears |-> years,
      events |-> << >>,
      weeks |-> << >>,
      spans |-> << >>,
      spansWithBounds |-> << >> ]

\* addEvent(date, title, type)
addEvent(ld, date, title, type) ==
    [ld EXCEPT !.events = Append(@, [date |-> date, title |-> title, type |-> type])]

\* A date argument: new Date(text) is a valid instant t or an Invalid Date;
\* null is passed for the end of an open-ended span
DateArg(t) == [kind |-> "date", t |-> t]
InvalidDate == [kind |-> "invalid", t |-> 0]
NullDate == [kind |-> "null", t |-> 0]

\* addSpan(startDate, endDate, title, color) called at the instant now: what
\* it throws, if it does, and the LifeData after it.  The object literal of
\* the push reads safeStart (line 63), which no scope declares: evaluating
\* it throws a ReferenceError before push is called, after normalizedStart
\* and safeEnd were computed.
addSpan(ld, startDate, endDate, title, color, now) ==
    LET normalizedStart == IF startDate.kind = "date" THEN startDate.t ELSE now
        safeEnd == IF endDate.kind = "date"
                   THEN Some(IF normalizedStart <= endDate.t THEN endDate.t
                             ELSE normalizedStart)
                   ELSE None
        declared == {"start", "end", "normalizedStart", "safeEnd"}
    IN  IF "safeStart" \in declared
        THEN [ threw |-> None,
               data |-> [ld EXCEPT !.spans = Append(@,
                            [ id |-> Len(ld.spans) + 1, title |-> title,
                              startDate |-> normalizedStart, endDate |-> safeEnd,
                              color |-> color ])] ]
        ELSE [ threw |-> Some("ReferenceError"), data |-> ld ]

\* The index of the week an instant falls in, counted from birth (may be
\* negative or beyond the last week): Math.floor((t - birthMs) / oneWeekMs)
weekIndexOf(t, birthMs) == Floor(t - birthMs, oneWeekMs)

currentWeekIndexUnclamped(nowMs, birthMs, maxIndex) ==
    Max(0, weekIndexOf(nowMs, birthMs))
currentWeekIndexOf(nowMs, birthMs, maxIndex) ==
    Min(maxIndex, Max(0, weekIndexOf(nowMs, birthMs)))

spanStartIdx(span, birthMs, maxIndex) ==
    Max(0, Min(maxIndex, weekIndexOf(span.startDate, birthMs)))

spanEndIdxNotForced(span, startIdx, currentWeekIndex, birthMs, maxIndex) ==
    LET computedEndIdx ==
            IF IsSome(span.endDate)
            THEN Min(maxIndex, weekIndexOf(Val(span.endDate), birthMs))
            ELSE currentWeekIndex
    IN  Min(currentWeekIndex, computedEndIdx)
\* An endDate that is an Invalid Date: it is not null, and its getTime() is NaN
InvalidEnd == <<"Invalid", "Date">>
isInvalid(d) == Len(d) = 2
\* The week index NaN, which Math.min and Math.max hand on: no week index is
\* less than or equal to it and no cell has it
NaNIndex == -1

spanEndIdx(span, startIdx, currentWeekIndex, birthMs, maxIndex) ==
    LET computedEndIdx ==
            IF IsSome(span.endDate)
            THEN Min(maxIndex, weekIndexOf(Val(span.endDate), birthMs))
            ELSE currentWeekIndex
    IN  IF isInvalid(span.endDate) THEN NaNIndex
        ELSE Max(startIdx, Min(currentWeekIndex, computedEndIdx))

\* computeSpanBounds(totalWeeks, oneWeekMs); nowMs is its Date.now()
computeSpanBounds(ld, totalWeeks, nowMs) ==
    LET birthMs == ld.birthDate
        maxIndex == totalWeeks - 1
        currentWeekIndex == currentWeekIndexOf(nowMs, birthMs, maxIndex)
        bounds(span) ==
            LET startIdx == spanStartIdx(span, birthMs, maxIndex)
                endIdx == spanEndIdx(span, startIdx, currentWeekIndex, birthMs, maxIndex)
            IN  [ id |-> span.id, title |-> span.title,
                  startDate |-> span.startDate, endDate |-> span.endDate,
                  color |-> span.color,
                  startWeekIndex |-> startIdx, endWeekIndex |-> endIdx ]
    IN  [k \in 1..Len(ld.spans) |-> bounds(ld.spans[k])]

weekEndOfInclusive(weekStartDate) == weekStartDate + oneWeekMs - 1
weekEndOf(weekStartDate) == weekStartDate + oneWeekMs

\* One element of the loop of generateWeeks(), for index i (0-based)
makeWeek(ld, i, now, spansWithBounds) ==
    LET weekStartDate == ld.birthDate + i * oneWeekMs
        weekEndDate == weekEndOf(weekStartDate)
        inWeek(event) == event.date >= weekStartDate /\ event.date < weekEndDate
        overlaps(span) == i >= span.startWeekIndex /\ i <= span.endWeekIndex
    IN  [ index |-> i,
          yearIndex |-> Floor(i, weeksPerYear),
          weekIndex |-> i % weeksPerYear,
          startDate |-> weekStartDate,
          endDate |-> weekEndDate,
          isPast |-> weekEndDate < now,
          isCurrent |-> weekStartDate <= now /\ weekEndDate > now,
          events |-> SelectSeq(ld.events, inWeek),
          spans |-> SelectSeq(spansWithBounds, overlaps) ]

totalWeeksOf(ld) == ld.lifeExpectancyYears * weeksPerYear

\* generateWeeks(): now is its new Date(), nowMs the Date.now() of
\* computeSpanBounds, read right after it
generateWeeks(ld, now, nowMs) ==
    LET totalWeeks == totalWeeksOf(ld)
        spansWithBounds == computeSpanBounds(ld, totalWeeks, nowMs)
        weeks == [k \in 1..totalWeeks |-> makeWeek(ld, k - 1, now, spansWithBounds)]
    IN  [ld EXCEPT !.weeks = weeks, !.spansWithBounds = spansWithBounds]

(***************************************************************************)
(* Numbers of the camera and of the grid.  A length or coordinate is an    *)
(* integer count of 1/PosUnit pixels, a scale or blend fraction an integer *)
(* count of 1/ScaleUnit; a product or quotient of two of them is rounded   *)
(* to the nearest count, where the code rounds to the nearest double.      *)
(***************************************************************************)
PosUnit == 2 * 5
ScaleUnit == 10 * 100

Px(n) == n * PosUnit
Dec(n, d) == (n * ScaleUnit) \div d

\* a * b / c rounded to nearest, for c > 0, without forming the product a * b
MulDiv(a, b, c) ==
    LET q == a \div c
        r == a % c
    IN  q * b + Round(r * b, c)

\* a * s for a coordinate a and a scale s
Scaled(a, s) == MulDiv(a, s, ScaleUnit)
\* a / s for a coordinate a and a scale s > 0
Unscaled(a, s) == MulDiv(a, ScaleUnit, s)

(***************************************************************************)
(* config.ts                                                               *)
(***************************************************************************)
defaultViewportConfig ==
    [ zoomFactor |-> Dec(103, 100),
      maxScale |-> Dec(10, 1),
      minScale |-> Dec(1, 10),
      scaleLerp |-> Dec(18, 100),
      positionLerp |-> Dec(22, 100) ]

defaultGridPalette ==
    [ future |-> 3093304,     \* 0x2f3338
      past |-> 16777215,      \* 0xffffff
      current |-> 16772923,   \* 0xffeb3b
      event |-> 14843290 ]    \* 0xe27d9a

\* defaultGridMotion, the fields the heats and the labels depend on: a radius,
\* padding or offset in position units, a rate in 1/RateUnit per millisecond
RateUnit == 100 * 100
defaultGridMotion ==
    [ hover |-> [ radius |-> Px(80), detectRadius |-> Px(18), heatDecay |-> 28 ],
      year |-> [ followRate |-> 40,
                 label |-> [ padding |-> Px(7), followRate |-> 45 ] ],
      selection |-> [ followRate |-> 60 ],
      week |-> [ label |-> [ padding |-> Px(6), followRate |-> 50 ],
                 offset |-> Px(16) ] ]

\* loadConfig(defaults, overrides): { ...defaults, ...overrides }
loadConfig(defaults, overrides) ==
    [k \in DOMAIN defaults |->
        IF k \in DOMAIN overrides THEN overrides[k] ELSE defaults[k]]

(***************************************************************************)
(* grid.ts: GridLayout                                                     *)
(***************************************************************************)
weekSize == 11
gap == 10
spanGutter == 170
spanLaneSpacing == 26

channelR(c) == (c \div 65536) % 256
channelG(c) == (c \div 256) % 256
channelB(c) == c % 256
rgb(r, g, b) == r * 65536 + g * 256 + b

\* mixColor(a, b, t) for t = tNum / tDen
mixColor(a, b, tNum, tDen) ==
    LET n == Max(0, Min(tDen, tNum))
        mix(x, y) == Round(x * tDen + (y - x) * n, tDen)
    IN  rgb(mix(channelR(a), channelR(b)),
            mix(channelG(a), channelG(b)),
            mix(channelB(a), channelB(b)))

\* the sum over spans 1..k of one colour channel (the forEach of mixSpanColors)
RECURSIVE sumChannel(_, _, _)
sumChannel(ss, k, shift) ==
    IF k = 0 THEN 0
    ELSE ((ss[k].color \div shift) % 256) + sumChannel(ss, k - 1, shift)

\* mixSpanColors(spans): null (None) or the channel-wise mean colour
mixSpanColors(ss) ==
    IF Len(ss) = 0 THEN None
    ELSE LET count == Len(ss)
         IN  Some(rgb(Round(sumChannel(ss, count, 65536), count),
                      Round(sumChannel(ss, count, 256), count),
                      Round(sumChannel(ss, count, 1), count)))

\* (the flag isPast looked at before the events)
baseColorPastFirst(week, palette) ==
    IF week.isPast THEN palette.past
    ELSE IF Len(week.events) > 0 THEN palette.event
    ELSE IF week.isCurrent THEN palette.current
    ELSE palette.future

\* the colour of a week before the span tint (render, the if / else-if chain)
baseColorOf(week, palette) ==
    IF Len(week.events) > 0 THEN palette.event
    ELSE IF week.isPast THEN palette.past
    ELSE IF week.isCurrent THEN palette.current
    ELSE palette.future

\* the cell render() creates for a week; the Graphics objects and the
\* jitter seed, which only drive what is drawn, are left out
makeCell(week, palette) ==
    LET x == week.weekIndex * (weekSize + gap)
        y == week.yearIndex * (weekSize + gap)
        spanTint == mixSpanColors(week.spans)
        color == baseColorOf(week, palette)
    IN  [ index |-> week.index,
          baseX |-> Px(x) + Px(weekSize) \div 2,
          baseY |-> Px(y) + Px(weekSize) \div 2,
          baseColor |-> IF IsSome(spanTint)
                        THEN mixColor(color, Val(spanTint), 7, 10)
                        ELSE color,
          yearIndex |-> week.yearIndex,
          startDate |-> week.startDate,
          alpha |-> Dec(85, 100),
          hoverHeat |-> 0,
          yearHeat |-> 0,
          focusHeat |-> 0 ]

\* a.startWeekIndex - b.startWeekIndex || a.endWeekIndex - b.endWeekIndex <= 0
spanBefore(a, b) ==
    \/ a.startWeekIndex < b.startWeekIndex
    \/ a.startWeekIndex = b.startWeekIndex /\ a.endWeekIndex <= b.endWeekIndex

\* insert sp into the sorted sequence ss, after the elements that are not
\* after it (Array.prototype.sort is stable)
RECURSIVE insertSpan(_, _)
insertSpan(ss, sp) ==
    IF Len(ss) = 0 THEN <<sp>>
    ELSE IF spanBefore(ss[Len(ss)], sp) THEN Append(ss, sp)
    ELSE Append(insertSpan(SubSeq(ss, 1, Len(ss) - 1), sp), ss[Len(ss)])

\* (the sort with the open-ended spans moved behind the others)
RECURSIVE sortSpansOpenLast(_)
sortSpansOpenLast(ss) ==
    IF Len(ss) = 0 THEN << >>
    ELSE
      LET rest == sortSpansOpenLast(SubSeq(ss, 1, Len(ss) - 1))
          sp == ss[Len(ss)]
          closed == SelectSeq(rest, LAMBDA s : IsSome(s.endDate))
          open == SelectSeq(rest, LAMBDA s : ~IsSome(s.endDate))
      IN  IF IsSome(sp.endDate) THEN insertSpan(closed, sp) \o open
          ELSE closed \o insertSpan(open, sp)

RECURSIVE sortSpans(_)
sortSpans(ss) ==
    IF Len(ss) = 0 THEN << >>
    ELSE insertSpan(sortSpans(SubSeq(ss, 1, Len(ss) - 1)), ss[Len(ss)])

\* the test of laneEnds.findIndex: may a span starting at startWeekIndex, in
\* year startYear, go to a lane whose last span ends at week `end`
laneFree(startWeekIndex, startYear, end) ==
    LET endYear == Floor(end, weeksPerYear)
    IN  startWeekIndex > end \/ startYear >= endYear

\* laneEnds.findIndex(...), with laneEnds.length for -1; lanes count from 0
RECURSIVE findLane(_, _, _, _)
findLane(laneEnds, k, startWeekIndex, startYear) ==
    IF k > Len(laneEnds) THEN Len(laneEnds)
    ELSE IF laneFree(startWeekIndex, startYear, laneEnds[k]) THEN k - 1
    ELSE findLane(laneEnds, k + 1, startWeekIndex, startYear)

\* laneEnds[lane] = end
setLaneEnd(laneEnds, lane, end) ==
    IF lane = Len(laneEnds) THEN Append(laneEnds, end)
    ELSE [laneEnds EXCEPT ![lane + 1] = end]

\* (a week index beyond the cells taken for the last cell)
cellAtClamped(cs, weekIndex) ==
    LET found == SelectSeq(cs, LAMBDA c : c.index = Min(weekIndex, Len(cs) - 1))
    IN  IF Len(found) = 0 THEN None ELSE Some(found[Len(found)])

cellAt(cs, weekIndex) ==
    LET found == SelectSeq(cs, LAMBDA c : c.index = weekIndex)
    IN  IF Len(found) = 0 THEN None ELSE Some(found[Len(found)])

\* the loop of renderSpans over the sorted spans, from the k-th on; acc holds
\* laneEnds and what was drawn so far.  The pill width, which depends on the
\* measured text, is left out of what is drawn.
RECURSIVE placeSpans(_, _, _, _)
placeSpans(sorted, k, cs, acc) ==
    IF k > Len(sorted) THEN acc
    ELSE
      LET span == sorted[k]
          startCell == cellAt(cs, span.startWeekIndex)
          endCell == cellAt(cs, span.endWeekIndex)
      IN  IF ~IsSome(startCell) \/ ~IsSome(endCell)
          THEN placeSpans(sorted, k + 1, cs, acc)
          ELSE
            LET startYear == Val(startCell).yearIndex
                lane == findLane(acc.laneEnds, 1, span.startWeekIndex, startYear)
                minY == Min(Val(startCell).baseY, Val(endCell).baseY)
                maxY == Max(Val(startCell).baseY, Val(endCell).baseY)
                isOpenEnded == ~IsSome(span.endDate)
                drawn == [ id |-> span.id,
                           lane |-> lane,
                           startWeekIndex |-> span.startWeekIndex,
                           endWeekIndex |-> span.endWeekIndex,
                           yMid |-> (Val(startCell).baseY + Val(endCell).baseY) \div 2,
                           laneX |-> Px(16 - spanGutter) - lane * Px(spanLaneSpacing),
                           minY |-> minY,
                           maxY |-> maxY,
                           endCap |-> ~isOpenEnded /\ maxY # minY,
                           dashes |-> isOpenEnded ]
            IN  placeSpans(sorted, k + 1, cs,
                    [ laneEnds |-> setLaneEnd(acc.laneEnds, lane, span.endWeekIndex),
                      drawn |-> Append(acc.drawn, drawn) ])

\* renderSpans(data, layer, cellByIndex): what it draws, in drawing order
renderSpans(data, cs) ==
    IF Len(data.spansWithBounds) = 0 THEN << >>
    ELSE placeSpans(sortSpans(data.spansWithBounds), 1, cs,
                    [laneEnds |-> << >>, drawn |-> << >>]).drawn

\* (the cells of all weeks but the last)
renderCellsButLast(data, palette) ==
    [k \in 1..(Len(data.weeks) - 1) |-> makeCell(data.weeks[k], palette)]

\* the cells render(data) builds
renderCells(data, palette) ==
    [k \in 1..Len(data.weeks) |-> makeCell(data.weeks[k], palette)]

\* (the camera re-centred by every render)
renderCameraAlways(data, hadChildren, cam, scr) ==
    [cam EXCEPT !.x = Px(scr.width - (weeksPerYear * (weekSize + gap) + spanGutter)) \div 2
                        + Px(spanGutter),
                !.y = Px(scr.height - data.lifeExpectancyYears * (weekSize + gap)) \div 2]

\* the camera after render(data): re-centred when there were no cells
renderCamera(data, hadChildren, cam, scr) ==
    LET gridWidth == weeksPerYear * (weekSize + gap)
        gridHeight == data.lifeExpectancyYears * (weekSize + gap)
        totalWidth == gridWidth + spanGutter
    IN  IF hadChildren
        THEN [cam EXCEPT !.scale = cam.scale, !.x = cam.x, !.y = cam.y]
        ELSE [cam EXCEPT !.x = Px(scr.width - totalWidth) \div 2 + Px(spanGutter),
                         !.y = Px(scr.height - gridHeight) \div 2]

\* setPointerFromView(viewX, viewY)
setPointerFromView(viewX, viewY, cam) ==
    [ viewX |-> viewX,
      viewY |-> viewY,
      x |-> Unscaled(viewX - cam.x, cam.scale),
      y |-> Unscaled(viewY - cam.y, cam.scale),
      active |-> TRUE ]

\* createLabel(style): the LabelState, with the alpha of its container and
\* the text shown
createLabel ==
    [ alpha |-> 0, text |-> None, heat |-> 0,
      pos |-> [x |-> 0, y |-> 0], target |-> [x |-> 0, y |-> 0],
      currentKey |-> None ]

\* elapsedMs and the two labels after the constructor
newAnim == [ elapsedMs |-> 0, yearLabel |-> createLabel, weekLabel |-> createLabel ]

\* Math.exp(-k / 100) for 0 <= k < 256, in 1/ExpUnit: e^(-0.01) = 0.9900 to
\* the power k, as the product of its powers for the binary digits of k
ExpUnit == 100 * 100
expNeg1 == (99 * ExpUnit) \div 100
expNeg2 == MulDiv(expNeg1, expNeg1, ExpUnit)
expNeg4 == MulDiv(expNeg2, expNeg2, ExpUnit)
expNeg8 == MulDiv(expNeg4, expNeg4, ExpUnit)
expNeg16 == MulDiv(expNeg8, expNeg8, ExpUnit)
expNeg32 == MulDiv(expNeg16, expNeg16, ExpUnit)
expNeg64 == MulDiv(expNeg32, expNeg32, ExpUnit)
expNeg128 == MulDiv(expNeg64, expNeg64, ExpUnit)
expNeg(k) ==
    LET digit(weight, power) == IF (k \div weight) % 2 = 1 THEN power ELSE ExpUnit
        times(a, b) == MulDiv(a, b, ExpUnit)
    IN  times(times(times(digit(1, expNeg1), digit(2, expNeg2)),
                    times(digit(4, expNeg4), digit(8, expNeg8))),
              times(times(digit(16, expNeg16), digit(32, expNeg32)),
                    times(digit(64, expNeg64), digit(128, expNeg128))))

\* (a factor that grows with the time: 1 + deltaMs * rate)
decayGrows(deltaMs, rate) ==
    ScaleUnit + Round(deltaMs * rate * ScaleUnit, RateUnit)

\* Math.exp(-deltaMs * rate), as a fraction of ScaleUnit
decayOf(deltaMs, rate) ==
    MulDiv(expNeg(Round(deltaMs * rate * 100, RateUnit)), ScaleUnit, ExpUnit)

\* the largest r in lo..hi with r * r <= n
RECURSIVE sqrtFloor(_, _, _)
sqrtFloor(n, lo, hi) ==
    IF lo >= hi THEN lo
    ELSE LET mid == (lo + hi + 1) \div 2
         IN  IF mid * mid <= n THEN sqrtFloor(n, mid, hi)
             ELSE sqrtFloor(n, lo, mid - 1)

\* Math.sqrt(n), to the nearest count, for 0 <= n < 2^30
sqrt(n) ==
    LET r == sqrtFloor(n, 0, 32767)
    IN  IF n - r * r > r THEN r + 1 ELSE r

\* smooth(value, target, rate, deltaMs)
smooth(value, target, rate, deltaMs) ==
    target + MulDiv(value - target, decayOf(deltaMs, rate), ScaleUnit)

\* dx * dx + dy * dy of animate and of resolveHoveredCell
distSqOf(cell, ptr) ==
    LET dx == cell.baseX - ptr.x
        dy == cell.baseY - ptr.y
    IN  dx * dx + dy * dy

\* the scan of resolveHoveredCell over the cells lo..hi, begun with no closest
\* cell and bestDist = thresholdSq: the closest cell (its position in cells,
\* None for null) and bestDist after it.  The scan of lo..hi is the scan of
\* its first half followed by the scan of its second half, where a cell
\* replaces the closest so far when distSq <= bestDist
RECURSIVE scanClosest(_, _, _, _, _)
scanClosest(cs, ptr, lo, hi, thresholdSq) ==
    IF lo = hi
    THEN LET distSq == distSqOf(cs[lo], ptr)
         IN  IF distSq <= thresholdSq
             THEN [closest |-> Some(lo), bestDist |-> distSq]
             ELSE [closest |-> None, bestDist |-> thresholdSq]
    ELSE LET mid == (lo + hi) \div 2
             first == scanClosest(cs, ptr, lo, mid, thresholdSq)
             second == scanClosest(cs, ptr, mid + 1, hi, thresholdSq)
         IN  IF IsSome(second.closest) /\ second.bestDist <= first.bestDist
             THEN second ELSE first

\* (the last cell within the detection radius, whatever its distance)
resolveHoveredLastNear(cs, ptr, motion) ==
    LET thresholdSq == motion.hover.detectRadius * motion.hover.detectRadius
        near == { k \in 1..Len(cs) : distSqOf(cs[k], ptr) <= thresholdSq }
    IN  IF ~ptr.active \/ near = {} THEN None
        ELSE Some(CHOOSE k \in near : \A h \in near : h <= k)

\* GridLayout.resolveHoveredCell without the test of pointer.active
resolveHoveredAlways(cs, ptr, motion) ==
    IF Len(cs) = 0 THEN None
    ELSE scanClosest(cs, ptr, 1, Len(cs),
                     motion.hover.detectRadius * motion.hover.detectRadius).closest

\* resolveHoveredCell(): the position in cells of the hovered cell, or None
resolveHoveredCell(cs, ptr, motion) ==
    IF ~ptr.active \/ Len(cs) = 0 THEN None
    ELSE scanClosest(cs, ptr, 1, Len(cs),
                     motion.hover.detectRadius * motion.hover.detectRadius).closest

\* computeYearBounds(yearIndex): minX and the middle of minY and maxY, which
\* is all updateYearLabel reads of it; None when the year has no cell
computeYearBounds(cs, yearIndex) ==
    LET ofYear == SelectSeq(cs, LAMBDA c : c.yearIndex = yearIndex)
        xs == { ofYear[k].baseX : k \in 1..Len(ofYear) }
        ys == { ofYear[k].baseY : k \in 1..Len(ofYear) }
        least(S) == CHOOSE v \in S : \A w \in S : v <= w
        most(S) == CHOOSE v \in S : \A w \in S : v >= w
    IN  IF Len(ofYear) = 0 THEN None
        ELSE Some([minX |-> least(xs), minY |-> least(ys), maxY |-> most(ys)])

\* text.width of a label: the code measures the rendered text; the model
\* takes 7 pixels a character of the monospace font
textWidth(chars) == Px(7) * chars

\* the label moved towards a target (the tail of both label updates)
labelTowards(label, target, rate, deltaMs) ==
    [label EXCEPT !.target = target,
                  !.pos = [x |-> smooth(label.pos.x, target.x, rate, deltaMs),
                           y |-> smooth(label.pos.y, target.y, rate, deltaMs)]]

\* updateYearLabel(hoveredYear, deltaMs): the year label after it
updateYearLabel(label, cs, hoveredYear, motion, deltaMs) ==
    LET style == motion.year.label
        targetHeat == IF IsSome(hoveredYear) THEN ScaleUnit ELSE 0
        heat == smooth(label.heat, targetHeat, style.followRate, deltaMs)
        heated == [label EXCEPT !.heat = heat, !.alpha = MulDiv(heat, 98, 100)]
    IN  IF ~IsSome(hoveredYear) THEN heated
        ELSE
          LET key == Some(<<"year", Val(hoveredYear)>>)
              keyed == [heated EXCEPT
                          !.currentKey = key,
                          !.text = IF label.currentKey # key
                                   THEN Some(<<"Year", Val(hoveredYear) + 1>>)
                                   ELSE label.text]
              bounds == computeYearBounds(cs, Val(hoveredYear))
              shown == Val(hoveredYear) + 1
              digits == IF shown < 10 THEN 1 ELSE IF shown < 100 THEN 2 ELSE 3
              labelWidth == textWidth(5 + digits) + style.padding * 2
              offset == (Px(weekSize) * 6) \div 10
          IN  IF ~IsSome(bounds) THEN keyed
              ELSE labelTowards(keyed,
                       [x |-> Val(bounds).minX - labelWidth - offset,
                        y |-> (Val(bounds).minY + Val(bounds).maxY) \div 2],
                       style.followRate, deltaMs)

\* updateWeekLabel(hoveredCell, deltaMs): the week label after it
updateWeekLabel(label, cs, hoveredCell, motion, deltaMs) ==
    LET style == motion.week.label
        targetHeat == IF IsSome(hoveredCell) THEN ScaleUnit ELSE 0
        heat == smooth(label.heat, targetHeat, style.followRate, deltaMs)
        heated == [label EXCEPT !.heat = heat, !.alpha = MulDiv(heat, 98, 100)]
    IN  IF ~IsSome(hoveredCell) THEN heated
        ELSE
          LET cell == cs[Val(hoveredCell)]
              key == Some(<<"week", cell.startDate>>)
              keyed == [heated EXCEPT
                          !.currentKey = key,
                          !.text = IF label.currentKey # key
                                   THEN Some(<<"Week of", cell.startDate>>)
                                   ELSE label.text]
          IN  labelTowards(keyed,
                  [x |-> cell.baseX + motion.week.offset,
                   y |-> cell.baseY - (Px(weekSize) * 2) \div 10],
                  style.followRate, deltaMs)

\* the influence of the pointer on a cell (animate, the body of the loop)
influenceOf(cell, ptr, motion) ==
    LET hoverRadiusSq == motion.hover.radius * motion.hover.radius
        distSq == distSqOf(cell, ptr)
        root == sqrt(distSq)
        dist == IF root = 0 THEN Px(1) ELSE root
    IN  IF ptr.active /\ distSq < hoverRadiusSq
        THEN ScaleUnit - MulDiv(dist, ScaleUnit, motion.hover.radius)
        ELSE 0

\* (the influence added to the decayed heat)
hoverHeatAdds(influence, hoverHeat, heatDecay) ==
    influence + MulDiv(hoverHeat, heatDecay, ScaleUnit)

\* Math.max(influence, cell.hoverHeat * heatDecay)
hoverHeatOf(influence, hoverHeat, heatDecay) ==
    Max(influence, MulDiv(hoverHeat, heatDecay, ScaleUnit))

\* (every year hovered when one is)
yearTargetAll(cell, hoveredYear) == IF IsSome(hoveredYear) THEN ScaleUnit ELSE 0

\* hoveredYear !== null && cell.yearIndex === hoveredYear ? 1 : 0
yearTargetOf(cell, hoveredYear) ==
    IF IsSome(hoveredYear) /\ cell.yearIndex = Val(hoveredYear) THEN ScaleUnit ELSE 0

\* (every cell focused when one is)
focusTargetAll(k, hoveredCell) == IF IsSome(hoveredCell) THEN ScaleUnit ELSE 0

\* hoveredCell === cell ? 1 : 0, for the k-th cell
focusTargetOf(k, hoveredCell) == IF hoveredCell = Some(k) THEN ScaleUnit ELSE 0

\* one cell after the body of the loop of animate; of what is written to the
\* Graphics objects the alpha is kept, the jittered position, the scale and
\* the tint are left out
animateCell(cell, k, ptr, hoveredCell, hoveredYear, motion, deltaMs) ==
    LET heatDecay == decayOf(deltaMs, motion.hover.heatDecay)
        influence == influenceOf(cell, ptr, motion)
        hoverHeat == hoverHeatOf(influence, cell.hoverHeat, heatDecay)
        yearTarget == yearTargetOf(cell, hoveredYear)
        focusTarget == focusTargetOf(k, hoveredCell)
        yearHeat == smooth(cell.yearHeat, yearTarget, motion.year.followRate, deltaMs)
        focusHeat == smooth(cell.focusHeat, focusTarget,
                            motion.selection.followRate, deltaMs)
    IN  [cell EXCEPT !.hoverHeat = hoverHeat,
                     !.yearHeat = yearHeat,
                     !.focusHeat = focusHeat,
                     !.alpha = Dec(78, 100)
                               + Round(15 * hoverHeat + 8 * yearHeat + 12 * focusHeat, 100)]

\* (the pointer left where the last pointer event put it)
pointerKept(ptr, cam) == ptr

\* if (this.pointer.active) this.setPointerFromView(viewX, viewY)
pointerInFrame(ptr, cam) ==
    IF ptr.active THEN setPointerFromView(ptr.viewX, ptr.viewY, cam) ELSE ptr

\* animate(deltaMs) after its first line: the cells, the pointer, elapsedMs
\* and the labels after a frame
animateFrame(cs, ptr, cam, an, motion, deltaMs) ==
      LET ptrNow == pointerInFrame(ptr, cam)
          hoveredCell == resolveHoveredCell(cs, ptrNow, motion)
          hoveredYear == IF IsSome(hoveredCell)
                         THEN Some(cs[Val(hoveredCell)].yearIndex) ELSE None
      IN  [ cells |-> SubSeq([k \in 1..Len(cs) |->
                                  animateCell(cs[k], k, ptrNow, hoveredCell,
                                              hoveredYear, motion, deltaMs)],
                             1, Len(cs)),
            pointer |-> ptrNow,
            anim |-> [ elapsedMs |-> an.elapsedMs + deltaMs,
                       yearLabel |-> updateYearLabel(an.yearLabel, cs, hoveredYear,
                                                     motion, deltaMs),
                       weekLabel |-> updateWeekLabel(an.weekLabel, cs, hoveredCell,
                                                     motion, deltaMs) ] ]

\* (a frame that does not look at the number of cells)
animateUnguarded(cs, ptr, cam, an, motion, deltaMs) ==
    animateFrame(cs, ptr, cam, an, motion, deltaMs)

\* animate(deltaMs): if (!this.cells.length) return
animate(cs, ptr, cam, an, motion, deltaMs) ==
    IF Len(cs) = 0 THEN [cells |-> cs, pointer |-> ptr, anim |-> an]
    ELSE animateFrame(cs, ptr, cam, an, motion, deltaMs)

(***************************************************************************)
(* viewport.ts: ViewportManager.  The camera it moves is the container of  *)
(* the grid (cam: x, y, scale).                                            *)
(***************************************************************************)
\* constructor(app, container, overrides)
newViewportManager(cam, overrides) ==
    [ isDragging |-> FALSE,
      lastPos |-> None,
      targetScale |-> IF cam.scale # 0 THEN cam.scale ELSE Dec(1, 1),
      targetPosition |-> [x |-> cam.x, y |-> cam.y],
      config |-> loadConfig(defaultViewportConfig, overrides) ]

\* targetScale * direction, direction = deltaY > 0 ? 1 / zoomFactor : zoomFactor
zoomed(targetScale, deltaY, config) ==
    IF deltaY > 0
    THEN MulDiv(targetScale, ScaleUnit, config.zoomFactor)
    ELSE MulDiv(targetScale, config.zoomFactor, ScaleUnit)

clampScaleNoMax(s, config) == Max(s, config.minScale)
\* Math.min(Math.max(s, minScale), maxScale)
clampScale(s, config) == Min(Max(s, config.minScale), config.maxScale)

\* (the world point computed from the target of the easing, not from the camera)
onWheelFromTarget(vp, cam, deltaY, x, y) ==
    LET w == [x |-> Unscaled(x - vp.targetPosition.x, vp.targetScale),
              y |-> Unscaled(y - vp.targetPosition.y, vp.targetScale)]
        newScale == clampScale(zoomed(vp.targetScale, deltaY, vp.config), vp.config)
    IN  [vp EXCEPT !.targetScale = newScale,
                   !.targetPosition = [x |-> x - Scaled(w.x, newScale),
                                       y |-> y - Scaled(w.y, newScale)]]

\* worldPos of onWheel: the world point under the view point (x, y)
worldPos(cam, x, y) ==
    [x |-> Unscaled(x - cam.x, cam.scale), y |-> Unscaled(y - cam.y, cam.scale)]

\* onWheel(e): the manager after a wheel event of deltaY at (x, y)
onWheel(vp, cam, deltaY, x, y) ==
    LET w == worldPos(cam, x, y)
        newScale == clampScale(zoomed(vp.targetScale, deltaY, vp.config), vp.config)
    IN  [vp EXCEPT !.targetScale = newScale,
                   !.targetPosition = [x |-> x - Scaled(w.x, newScale),
                                       y |-> y - Scaled(w.y, newScale)]]

\* onPointerDown(e)
onPointerDown(vp, x, y) ==
    [vp EXCEPT !.isDragging = TRUE, !.lastPos = Some([x |-> x, y |-> y])]

\* onPointerMove(e): the camera after the event
draggedCamera(vp, cam, x, y) ==
    IF ~vp.isDragging \/ ~IsSome(vp.lastPos) THEN cam
    ELSE [cam EXCEPT !.x = @ + (x - Val(vp.lastPos).x),
                     !.y = @ + (y - Val(vp.lastPos).y)]

\* (the target of the easing not snapped to the dragged camera)
onPointerMoveNoSnap(vp, cam, x, y) ==
    IF ~vp.isDragging \/ ~IsSome(vp.lastPos) THEN vp
    ELSE [vp EXCEPT !.lastPos = Some([x |-> x, y |-> y])]

\* onPointerMove(e): the manager after the event
onPointerMove(vp, cam, x, y) ==
    IF ~vp.isDragging \/ ~IsSome(vp.lastPos) THEN vp
    ELSE LET moved == draggedCamera(vp, cam, x, y)
         IN  [vp EXCEPT !.targetPosition = [x |-> moved.x, y |-> moved.y],
                        !.lastPos = Some([x |-> x, y |-> y])]

\* (a release that forgets the drag flag)
onPointerUpStillDragging(vp) == [vp EXCEPT !.lastPos = None]

\* onPointerUp()
onPointerUp(vp) == [vp EXCEPT !.isDragging = FALSE, !.lastPos = None]

\* (a blend that passes the end: start + (end - start) * (1 + amt))
lerpPast(start, end, amt) == start + MulDiv(end - start, ScaleUnit + amt, ScaleUnit)

\* lerp(start, end, amt) = start + (end - start) * amt
lerp(start, end, amt) == start + MulDiv(end - start, amt, ScaleUnit)

\* update(): the camera after one frame
update(vp, cam) ==
    [ scale |-> lerp(cam.scale, vp.targetScale, vp.config.scaleLerp),
      x |-> lerp(cam.x, vp.targetPosition.x, vp.config.positionLerp),
      y |-> lerp(cam.y, vp.targetPosition.y, vp.config.positionLerp) ]

(***************************************************************************)
(* app.ts                                                                  *)
(***************************************************************************)
\* The value of an <input>: a decimal integer, or something parseInt makes
\* NaN of (the empty string, text)
NumText(n) == [kind |-> "int", n |-> n]
EmptyText == [kind |-> "empty", n |-> 0]
WordText == [kind |-> "text", n |-> 0]
\* no <input> element at all: input?.value is undefined
NoInput == [kind |-> "missing", n |-> 0]

\* Number.parseInt(value, 10): None for NaN
parseInt(v) == IF v.kind = "int" THEN Some(v.n) ELSE None

\* getBirthdate(): input.value || '2000-01-01'
getBirthdate(input) == IF IsSome(input) THEN Val(input) ELSE 0

\* (the value without the lower limit)
getLifeExpectancyNoFloor(input) ==
    LET parsed == parseInt(input)
        orDefault == IF IsSome(parsed) /\ Val(parsed) # 0 THEN Val(parsed) ELSE 90
    IN  Min(orDefault, 120)

\* getLifeExpectancy(): Math.min(Math.max(parsed || 90, 1), 120)
getLifeExpectancy(input) ==
    LET parsed == parseInt(input)
        orDefault == IF IsSome(parsed) /\ Val(parsed) # 0 THEN Val(parsed) ELSE 90
    IN  Min(Max(orDefault, 1), 120)

\* (a snapshot without the event of today)
buildLifeDataNoToday(stored, birthIn, expectancyIn, today, now, nowMs) ==
    LET fresh == NewLifeData(getBirthdate(birthIn), getLifeExpectancy(expectancyIn))
        pushed == [fresh EXCEPT !.spans =
                     [k \in 1..Len(stored) |->
                        [ id |-> stored[k].id,
                          title |-> stored[k].title,
                          startDate |-> stored[k].start,
                          endDate |-> stored[k].end,
                          color |-> stored[k].color ]]]
    IN  generateWeeks(pushed, now, nowMs)

\* buildLifeData(), its three clock readings given
buildLifeData(stored, birthIn, expectancyIn, today, now, nowMs) ==
    LET fresh == NewLifeData(getBirthdate(birthIn), getLifeExpectancy(expectancyIn))
        withToday == addEvent(fresh, today, "Today", "milestone")
        pushed == [withToday EXCEPT !.spans =
                     [k \in 1..Len(stored) |->
                        [ id |-> stored[k].id,
                          title |-> stored[k].title,
                          startDate |-> stored[k].start,
                          endDate |-> stored[k].end,
                          color |-> stored[k].color ]]]
    IN  generateWeeks(pushed, now, nowMs)

(***************************************************************************)
(* The LifeData interface as a state machine: a LifeData is constructed,   *)
(* events and spans are added to it, then generateWeeks() is called, as    *)
(* buildLifeData() of app.ts does.                                         *)
(***************************************************************************)
BirthDates == {0, 3}
SpanStarts == {-10, 0, 200, 400}
SpanEnds == {None, Some(-10), Some(31), Some(400)}
EventDates == {30}
Times == {-5, 27, 800}
SpanColors == <<8118258, 16369487>>

blankGrid ==
    /\ spans = << >>
    /\ birthInput = 0
    /\ expectancyInput = 1
    /\ screen = [width |-> 0, height |-> 0]
    /\ editingSpanId = None
    /\ spanForm = << >>
    /\ cells = << >>
    /\ spanLanes = << >>
    /\ container = [x |-> 0, y |-> 0, scale |-> 0]
    /\ pointer = [x |-> 0, y |-> 0, viewX |-> 0, viewY |-> 0, active |-> FALSE]
    /\ anim = newAnim
    /\ viewport = None
    /\ pc = "data"
    /\ last = [op |-> "data", ptr |-> None]
    /\ steps = 0

InitData ==
    /\ clock \in Times
    /\ \E b \in BirthDates, y \in 1..MaxYears : lifeData = NewLifeData(b, y)
    /\ nowRead = None
    /\ blankGrid

\* new LifeData(birthDate, lifeExpectancyYears)
dataNew ==
    /\ \E b \in BirthDates, y \in 1..MaxYears : lifeData' = NewLifeData(b, y)
    /\ nowRead' = None
    /\ UNCHANGED <<clock, appVars, gridVars, viewport, pc, last, steps>>

\* lifeData.addEvent(date, title, type)
dataAddEvent ==
    /\ lifeData.weeks = << >>
    /\ Len(lifeData.events) < MaxEvents
    /\ \E d \in EventDates : lifeData' = addEvent(lifeData, d, "Today", "milestone")
    /\ UNCHANGED <<clock, nowRead, appVars, gridVars, viewport, pc, last, steps>>

\* lifeData.spans.push({...}) of buildLifeData
dataPushSpan ==
    /\ lifeData.weeks = << >>
    /\ Len(lifeData.spans) < MaxSpans
    /\ \E s \in SpanStarts, e \in SpanEnds :
         lifeData' = [lifeData EXCEPT !.spans = Append(@,
                        [ id |-> Len(lifeData.spans) + 1, title |-> "span",
                          startDate |-> s, endDate |-> e,
                          color |-> SpanColors[(Len(lifeData.spans) % 2) + 1] ])]
    /\ UNCHANGED <<clock, nowRead, appVars, gridVars, viewport, pc, last, steps>>

\* The clock may move between the two readings of generateWeeks(); the model
\* lets it move by one day, from the instants of Times only.
secondReading(t) == IF t \in Times THEN {t, t + 1} ELSE {t}

\* lifeData.generateWeeks()
dataGenerateWeeks ==
    /\ lifeData.weeks = << >>
    /\ \E nowMs \in secondReading(clock) :
         /\ lifeData' = generateWeeks(lifeData, clock, nowMs)
         /\ nowRead' = Some([now |-> clock, nowMs |-> nowMs])
         /\ clock' = nowMs
    /\ UNCHANGED <<appVars, gridVars, viewport, pc, last, steps>>

\* time passes
dataTick ==
    /\ \E t \in Times : t > clock /\ clock' = t
    /\ UNCHANGED <<lifeData, nowRead, appVars, gridVars, viewport, pc, last, steps>>

NextData == dataNew \/ dataAddEvent \/ dataPushSpan \/ dataGenerateWeeks \/ dataTick

SpecData == InitData /\ [][NextData]_vars

\* lifeData.addSpan(startDate, endDate, title, color); last keeps the
\* arguments, the spans before the call and what the call threw
StartArgs == { InvalidDate } \cup { DateArg(t) : t \in SpanStarts }
EndArgs == { NullDate, InvalidDate } \cup { DateArg(t) : t \in {-10, 31, 400} }
dataAddSpan ==
    /\ lifeData.weeks = << >>
    /\ Len(lifeData.spans) <= MaxSpans
    /\ \E s \in StartArgs, e \in EndArgs :
         \E after \in { addSpan(lifeData, s, e, "span", SpanColors[1], clock) } :
             /\ lifeData' = after.data
             /\ last' = [ op |-> "addSpan", ptr |-> None, start |-> s, end |-> e,
                          now |-> clock, spans |-> lifeData.spans,
                          threw |-> after.threw ]
    /\ UNCHANGED <<clock, nowRead, appVars, gridVars, viewport, pc, steps>>

NextAddSpan == dataPushSpan \/ dataAddSpan

SpecAddSpan == InitData /\ [][NextAddSpan]_vars

generated == lifeData.weeks # << >>
maxIndexOf(ld) == totalWeeksOf(ld) - 1
clampIdx(i, ld) == Max(0, Min(maxIndexOf(ld), i))

\* C2: generateWeeks() returns lifeExpectancyYears * 52 weeks in index order,
\* with yearIndex = floor(index / 52) and weekIndex = index mod 52, week 0
\* starting at the birth date, every week 7 days long and ending where the
\* next one starts.
C2_WeeksContiguous ==
    generated =>
        /\ Len(lifeData.weeks) = lifeData.lifeExpectancyYears * 52
        /\ lifeData.weeks[1].startDate = lifeData.birthDate
        /\ \A k \in 1..Len(lifeData.weeks) :
             LET w == lifeData.weeks[k] IN
             /\ w.index = k - 1
             /\ w.yearIndex * 52 <= w.index /\ w.index < (w.yearIndex + 1) * 52
             /\ w.weekIndex = w.index - 52 * w.yearIndex
             /\ w.endDate = w.startDate + 7
             /\ k < Len(lifeData.weeks) => w.endDate = lifeData.weeks[k + 1].startDate

C2_Witness ==
    /\ generated
    /\ lifeData.lifeExpectancyYears = 2
    /\ lifeData.birthDate = 3
    /\ lifeData.weeks[53].yearIndex = 1

\* C3: every span's computed bounds satisfy
\* 0 <= startWeekIndex <= endWeekIndex <= totalWeeks - 1.
C3_BoundsInRange ==
    \A k \in 1..Len(lifeData.spansWithBounds) :
        LET b == lifeData.spansWithBounds[k] IN
        /\ 0 <= b.startWeekIndex
        /\ b.startWeekIndex <= b.endWeekIndex
        /\ b.endWeekIndex <= lifeData.lifeExpectancyYears * 52 - 1

\* a span that starts after the end of life and ends before birth
C3_Witness ==
    /\ generated
    /\ \E k \in 1..Len(lifeData.spansWithBounds) :
         LET b == lifeData.spansWithBounds[k] IN
         /\ IsSome(b.endDate) /\ Val(b.endDate) < lifeData.birthDate
         /\ b.startDate > lifeData.birthDate + totalWeeksOf(lifeData) * 7

currentWeekRead == clampIdx((Val(nowRead).nowMs - lifeData.birthDate) \div 7, lifeData)

\* C4 as stated: an open-ended span's endWeekIndex equals the clamped
\* current-week index and is never less than startWeekIndex.
C4_Original ==
    generated =>
        \A k \in 1..Len(lifeData.spansWithBounds) :
            LET b == lifeData.spansWithBounds[k] IN
            ~IsSome(b.endDate) =>
                b.endWeekIndex = currentWeekRead /\ b.endWeekIndex >= b.startWeekIndex

\* C4 amended: an open-ended span's endWeekIndex is the larger of its
\* startWeekIndex and the clamped current-week index.
C4_OpenEndedEnd ==
    generated =>
        \A k \in 1..Len(lifeData.spansWithBounds) :
            LET b == lifeData.spansWithBounds[k] IN
            ~IsSome(b.endDate) =>
                /\ b.endWeekIndex >= b.startWeekIndex
                /\ b.endWeekIndex >= currentWeekRead
                /\ b.endWeekIndex \in {b.startWeekIndex, currentWeekRead}

\* an open-ended span that starts after the current week
C4_Witness ==
    /\ generated
    /\ \E k \in 1..Len(lifeData.spansWithBounds) :
         LET b == lifeData.spansWithBounds[k] IN
         /\ ~IsSome(b.endDate)
         /\ b.startWeekIndex > currentWeekRead
         /\ b.endWeekIndex = b.startWeekIndex

\* C5: a span whose end date is not earlier than its start date has
\* startWeekIndex and endWeekIndex equal to the whole weeks elapsed from birth
\* to its start and end dates, clamped only to [0, totalWeeks - 1].
C5_ClosedSpanWeeks ==
    generated =>
        \A k \in 1..Len(lifeData.spansWithBounds) :
            LET b == lifeData.spansWithBounds[k] IN
            (IsSome(b.endDate) /\ Val(b.endDate) >= b.startDate) =>
                /\ b.startWeekIndex =
                     clampIdx((b.startDate - lifeData.birthDate) \div 7, lifeData)
                /\ b.endWeekIndex =
                     clampIdx((Val(b.endDate) - lifeData.birthDate) \div 7, lifeData)

(***************************************************************************)
(* The application: init() of app.ts, then the listeners of the inputs,    *)
(* of the canvas and of the ticker.                                        *)
(***************************************************************************)
MaxStoredSpans == 2
MaxSteps == 3

StoredStarts == {0, 35, 420}
StoredEnds == {None, Some(70), Some(400)}
StoredSpans(id) ==
    { [ id |-> id, title |-> "span", start |-> st, end |-> en,
        color |-> SpanColors[((id - 1) % 2) + 1], openEnded |-> ~IsSome(en) ] :
      st \in StoredStarts, en \in StoredEnds }

\* the span lists loadStoredSpans() may return
RECURSIVE StoredSpanLists(_)
StoredSpanLists(n) ==
    IF n = 0 THEN { << >> }
    ELSE LET shorter == StoredSpanLists(n - 1)
         IN  shorter \cup
             { Append(l, sp) : l \in { m \in shorter : Len(m) = n - 1 },
                               sp \in StoredSpans(n) }

Screens == { [width |-> 1280, height |-> 720] }
BirthInputs == { None, Some(3) }
ExpectancyInputs == { NumText(y) : y \in 1..MaxYears }
Points == { [x |-> Px(400), y |-> Px(300)], [x |-> Px(700), y |-> Px(420)] }
WheelDeltas == { -100, 0, 100 }
CoarseViewport ==
    [ zoomFactor |-> Dec(2, 1), maxScale |-> Dec(2, 1), minScale |-> Dec(1, 2),
      scaleLerp |-> Dec(1, 2), positionLerp |-> Dec(1, 2) ]
\* window.lifeConfig.viewport: absent, or an override of every field
ViewportOverrides == { << >>, CoarseViewport }

(***************************************************************************)
(* The span form of app.ts: #span-title, #span-start, #span-end,           *)
(* #span-color and #span-ongoing.                                          *)
(***************************************************************************)
\* the value of a date input that new Date() parses: the text of day t
DateText(t) == [kind |-> "date", n |-> t]

\* new Date(text).getTime(): None for NaN
getTime(text) == IF text.kind = "date" THEN Some(text.n) ELSE None

\* x || 0 on a number: NaN and 0 are falsy
orZero(x) == IF IsSome(x) /\ Val(x) # 0 THEN x ELSE Some(0)

\* Number.isNaN(x)
isNaN(x) == ~IsSome(x)

\* title.trim(), on the titles of the model
trim(title) == IF title = " " THEN "" ELSE title

\* span.end as the stored text of an end date: null (None), the text of a
\* day, or a text that does not parse
storedEnd(text) == IF text.kind = "date" THEN Some(text.n) ELSE InvalidEnd

\* span.end || ""
endText(end) ==
    IF ~IsSome(end) THEN EmptyText
    ELSE IF isInvalid(end) THEN WordText
    ELSE DateText(Val(end))

\* getDefaultSpanStartValue(): birthInput?.value || ""
getDefaultSpanStartValue(birthIn) ==
    IF IsSome(birthIn) THEN DateText(Val(birthIn)) ELSE EmptyText

\* getDefaultSpanEndValue(): new Date().toISOString().slice(0, 10), the text
\* of the day of `today`
getDefaultSpanEndValue(today) == DateText(today)

\* SPAN_COLORS[spans.length % SPAN_COLORS.length]
defaultColor(stored) == SpanColors[(Len(stored) % Len(SpanColors)) + 1]

\* parseColorInput(value, fallback): the colour input holds None for the
\* empty string, or the number its hexadecimal text stands for
parseColorInput(value, fallback) == IF IsSome(value) THEN Val(value) ELSE fallback

\* setOngoing(checked)
setOngoing(form, checked) ==
    [form EXCEPT !.ongoing = checked,
                 !.end = IF checked THEN EmptyText ELSE @]

\* updateSpanFormState(span), span given as Some(span) or None for null:
\* the new editingSpanId and the new values of the form
updateSpanFormState(span, stored, birthIn, today) ==
    IF IsSome(span)
    THEN [ editing |-> Some(Val(span).id),
           form |-> setOngoing([ title |-> Val(span).title,
                                 start |-> DateText(Val(span).start),
                                 end |-> endText(Val(span).end),
                                 color |-> Some(Val(span).color),
                                 ongoing |-> FALSE ],
                               Val(span).openEnded) ]
    ELSE [ editing |-> None,
           form |-> setOngoing([ title |-> "",
                                 start |-> getDefaultSpanStartValue(birthIn),
                                 end |-> getDefaultSpanEndValue(today),
                                 color |-> Some(defaultColor(stored)),
                                 ongoing |-> FALSE ],
                               FALSE) ]

\* what `last` remembers of the state a handler started in
Before(op, x, y, deltaY) ==
    [ op |-> op, x |-> x, y |-> y, deltaY |-> deltaY,
      cam |-> container, vp |-> viewport, ncells |-> Len(cells),
      input |-> expectancyInput,
      prevOp |-> last.op,
      \* where the pointer event before this one was, and where the last is
      prev |-> last.ptr,
      ptr |-> IF op \in {"pointerdown", "pointermove"}
              THEN Some([x |-> x, y |-> y]) ELSE last.ptr ]

\* the state after `new GridLayout(app, ...)` in init()
InitAppWith(lists, clocks, inputs) ==
    /\ clock \in clocks
    /\ lifeData = NewLifeData(0, 1)
    /\ nowRead = None
    /\ spans \in lists
    /\ birthInput = None
    /\ expectancyInput \in inputs
    /\ screen \in Screens
    /\ editingSpanId = None
    /\ spanForm = updateSpanFormState(None, spans, birthInput, clock).form
    /\ cells = << >>
    /\ spanLanes = << >>
    /\ container = [x |-> 0, y |-> 0, scale |-> Dec(1, 1)]
    /\ pointer = [x |-> 0, y |-> 0, viewX |-> 0, viewY |-> 0, active |-> FALSE]
    /\ anim = newAnim
    /\ viewport = None
    /\ pc = "constructed"
    /\ last = [op |-> "new", ptr |-> None]
    /\ steps = 0

InitApp(lists, clocks) == InitAppWith(lists, clocks, ExpectancyInputs)

\* renderLife(), the module variable `spans` holding `stored`:
\* buildLifeData(), then gridLayout.render(lifeData)
\* now and nowMs are what the clock, which buildLifeData() read first for the
\* 'Today' event, shows to the two readings of generateWeeks()
renderLifeAt(stored, birthIn, expectancyIn, now, nowMs) ==
    LET data == buildLifeData(stored, birthIn, expectancyIn, clock, now, nowMs)
        newCells == renderCells(data, defaultGridPalette)
    IN  /\ lifeData' = data
        /\ nowRead' = Some([now |-> now, nowMs |-> nowMs])
        /\ clock' = nowMs
        /\ birthInput' = birthIn
        /\ expectancyInput' = IF expectancyIn = NoInput THEN NoInput
                              ELSE NumText(getLifeExpectancy(expectancyIn))
        /\ cells' = newCells
        /\ spanLanes' = renderSpans(data, newCells)
        /\ container' = renderCamera(data, Len(cells) > 0, container, screen)

renderLifeOf(stored, birthIn, expectancyIn) ==
    \E nowMs \in secondReading(clock) :
        renderLifeAt(stored, birthIn, expectancyIn, clock, nowMs)

renderLife(birthIn, expectancyIn) == renderLifeOf(spans, birthIn, expectancyIn)

\* init(): renderLife()
initRender ==
    /\ pc = "constructed"
    /\ renderLife(birthInput, expectancyInput)
    /\ pc' = "rendered"
    /\ last' = Before("render", 0, 0, 0)
    /\ UNCHANGED <<spans, screen, editingSpanId, spanForm, pointer, viewport, steps, anim>>

\* init(): new ViewportManager(app, gridLayout.container, viewportCfg)
initViewport ==
    /\ pc = "rendered"
    /\ \E ov \in ViewportOverrides : viewport' = Some(newViewportManager(container, ov))
    /\ pc' = "running"
    /\ last' = Before("viewport", 0, 0, 0)
    /\ UNCHANGED <<dataVars, appVars, gridVars, steps>>

\* the 'change' listener of #birthdate
onBirthdateChange ==
    /\ pc = "running"
    /\ \E b \in BirthInputs : b # birthInput /\ renderLife(b, expectancyInput)
    /\ last' = Before("render", 0, 0, 0)
    /\ UNCHANGED <<spans, screen, editingSpanId, spanForm, pointer, viewport, pc, steps, anim>>

\* the 'change' listener of #life-expectancy
onExpectancyChangeTo(inputs) ==
    /\ pc = "running"
    /\ steps < MaxSteps
    /\ expectancyInput # NoInput
    /\ \E e \in inputs :
         /\ e # expectancyInput
         /\ renderLife(birthInput, e)
         /\ last' = [Before("render", 0, 0, 0) EXCEPT !.input = e]
    /\ steps' = steps + 1
    /\ UNCHANGED <<spans, screen, editingSpanId, spanForm, pointer, viewport, pc, anim>>

onExpectancyChange == onExpectancyChangeTo(ExpectancyInputs)

\* a 'wheel' event on the canvas
wheel ==
    /\ pc = "running"
    /\ steps < MaxSteps
    /\ \E d \in WheelDeltas, p \in Points :
         /\ viewport' = Some(onWheel(Val(viewport), container, d, p.x, p.y))
         /\ last' = Before("wheel", p.x, p.y, d)
    /\ steps' = steps + 1
    /\ UNCHANGED <<dataVars, appVars, gridVars, pc>>

\* a 'pointerdown' event: updatePointer of the grid, then onPointerDown
pointerdownAt(points) ==
    /\ pc = "running"
    /\ steps < MaxSteps
    /\ \E p \in points :
         /\ pointer' = setPointerFromView(p.x, p.y, container)
         /\ viewport' = Some(onPointerDown(Val(viewport), p.x, p.y))
         /\ last' = Before("pointerdown", p.x, p.y, 0)
    /\ steps' = steps + 1
    /\ UNCHANGED <<dataVars, appVars, cells, spanLanes, container, pc, anim>>

pointerdown == pointerdownAt(Points)

\* a 'pointermove' event: updatePointer of the grid, then onPointerMove
pointermoveTo(points) ==
    /\ pc = "running"
    /\ steps < MaxSteps
    /\ \E p \in points :
         /\ pointer' = setPointerFromView(p.x, p.y, container)
         /\ container' = draggedCamera(Val(viewport), container, p.x, p.y)
         /\ viewport' = Some(onPointerMove(Val(viewport), container, p.x, p.y))
         /\ last' = Before("pointermove", p.x, p.y, 0)
    /\ steps' = steps + 1
    /\ UNCHANGED <<dataVars, appVars, cells, spanLanes, pc, anim>>

pointermove == pointermoveTo(Points)

\* a 'pointerup' event: onPointerUp
pointerup ==
    /\ pc = "running"
    /\ steps < MaxSteps
    /\ viewport' = Some(onPointerUp(Val(viewport)))
    /\ last' = Before("pointerup", 0, 0, 0)
    /\ steps' = steps + 1
    /\ UNCHANGED <<dataVars, appVars, gridVars, pc>>

\* a 'pointerleave' event: the listener of the grid, then onPointerUp
pointerleave ==
    /\ pc = "running"
    /\ steps < MaxSteps
    /\ pointer' = [pointer EXCEPT !.active = FALSE]
    /\ viewport' = Some(onPointerUp(Val(viewport)))
    /\ last' = Before("pointerleave", 0, 0, 0)
    /\ steps' = steps + 1
    /\ UNCHANGED <<dataVars, appVars, cells, spanLanes, container, pc, anim>>

\* a frame of the ticker: ViewportManager.update
tick ==
    /\ pc = "running"
    /\ steps < MaxSteps
    /\ container' = update(Val(viewport), container)
    /\ last' = Before("update", 0, 0, 0)
    /\ steps' = steps + 1
    /\ UNCHANGED <<dataVars, appVars, cells, spanLanes, pointer, viewport, pc, anim>>

(***************************************************************************)
(* The span lanes: every stored span list, rendered and re-rendered.       *)
(***************************************************************************)
InitLanes == InitApp(StoredSpanLists(MaxStoredSpans), {900})

NextLanes == initRender \/ initViewport \/ onBirthdateChange

SpecLanes == InitLanes /\ [][NextLanes]_vars

\* (an update that forgets to look at the id of the span it maps)
handleAddSpanMapsAll(form, stored, editing, newId) ==
    LET title == trim(form.title)
        missing == title = "" \/ form.start = EmptyText
                   \/ (form.end = EmptyText /\ ~form.ongoing)
        startTime == getTime(form.start)
        endTime == getTime(form.end)
        unparsable == \/ isNaN(startTime)
                      \/ (form.end # EmptyText /\ isNaN(orZero(endTime)))
        swap == /\ ~form.ongoing /\ form.end # EmptyText
                /\ IsSome(startTime) /\ IsSome(endTime) /\ Val(startTime) > Val(endTime)
        storedAs(id, fallback) ==
            [ id |-> id,
              title |-> title,
              start |-> IF swap THEN form.end.n ELSE form.start.n,
              end |-> IF form.ongoing THEN None
                      ELSE storedEnd(IF swap THEN form.start ELSE form.end),
              color |-> parseColorInput(form.color, fallback),
              openEnded |-> form.ongoing ]
    IN  IF missing \/ unparsable
        THEN [ accepted |-> FALSE, spans |-> stored ]
        ELSE [ accepted |-> TRUE,
               spans |-> IF IsSome(editing)
                         THEN [k \in 1..Len(stored) |->
                                 storedAs(stored[k].id, stored[k].color)]
                         ELSE Append(stored, storedAs(newId, defaultColor(stored))) ]

(***************************************************************************)
(* The span editor: the span form, the rows of the span list with their    *)
(* Edit and remove buttons, and the submit and cancel buttons.             *)
(***************************************************************************)
\* handleAddSpan() on the values of the form: whether it got past its early
\* returns, and the span list it then leaves in `spans`; newId is the id
\* crypto.randomUUID() makes
handleAddSpan(form, stored, editing, newId) ==
    LET title == trim(form.title)
        start == form.start
        end == form.end
        isOngoing == form.ongoing
        missing == title = "" \/ start = EmptyText \/ (end = EmptyText /\ ~isOngoing)
        startTime == getTime(start)
        endTime == getTime(end)
        unparsable == \/ isNaN(startTime)
                      \/ (end # EmptyText /\ isNaN(orZero(endTime)))
        \* startDate > endDate: false when either time is NaN
        later == IsSome(startTime) /\ IsSome(endTime) /\ Val(startTime) > Val(endTime)
        swap == ~isOngoing /\ end # EmptyText /\ later
        normalizedStart == IF swap THEN end ELSE start
        normalizedEnd == IF swap THEN start ELSE end
        storedAs(id, fallback) ==
            [ id |-> id,
              title |-> title,
              start |-> normalizedStart.n,
              end |-> IF isOngoing THEN None ELSE storedEnd(normalizedEnd),
              color |-> parseColorInput(form.color, fallback),
              openEnded |-> isOngoing ]
        updated == [k \in 1..Len(stored) |->
                      IF stored[k].id = Val(editing)
                      THEN storedAs(stored[k].id, stored[k].color)
                      ELSE stored[k]]
        added == Append(stored, storedAs(newId, defaultColor(stored)))
    IN  IF missing \/ unparsable
        THEN [ accepted |-> FALSE, spans |-> stored ]
        ELSE [ accepted |-> TRUE,
               spans |-> IF IsSome(editing) THEN updated ELSE added ]

\* what `last` remembers of the editor before a handler
BeforeEdit(op, id) ==
    [ op |-> op, ptr |-> None, id |-> id, spans |-> spans,
      editing |-> editingSpanId, form |-> spanForm,
      accepted |-> FALSE, rebuilt |-> FALSE, saved |-> FALSE ]

\* the id crypto.randomUUID() returns: one that no span has
freshIds(stored) ==
    LET used == { stored[k].id : k \in 1..Len(stored) } \cup {0}
    IN  { 1 + (CHOOSE id \in used : \A other \in used : id >= other) }

\* what the user may enter in #span-title, #span-start and #span-end
FormInputs ==
    { [title |-> "job", start |-> DateText(35), end |-> DateText(70)],
      [title |-> "job", start |-> DateText(70), end |-> DateText(35)],
      [title |-> "", start |-> DateText(35), end |-> DateText(70)],
      [title |-> " ", start |-> DateText(35), end |-> DateText(70)],
      [title |-> "job", start |-> EmptyText, end |-> DateText(70)],
      [title |-> "job", start |-> DateText(35), end |-> EmptyText],
      [title |-> "job", start |-> WordText, end |-> DateText(70)],
      [title |-> "job", start |-> DateText(35), end |-> WordText] }

\* the user fills the form in; #span-end is disabled while 'ongoing' is checked
typeSpan ==
    /\ pc = "running"
    /\ steps < MaxSteps
    /\ \E in \in FormInputs :
         /\ spanForm' = [spanForm EXCEPT !.title = in.title, !.start = in.start,
                                         !.end = IF spanForm.ongoing THEN @ ELSE in.end]
         /\ spanForm' # spanForm
    /\ last' = BeforeEdit("type", 0)
    /\ steps' = steps + 1
    /\ UNCHANGED <<dataVars, spans, birthInput, expectancyInput, screen, editingSpanId,
                   gridVars, viewport, pc>>

\* the 'change' listener of #span-ongoing, the box just toggled
onOngoingChange ==
    /\ pc = "running"
    /\ steps < MaxSteps
    /\ LET checked == ~spanForm.ongoing
       IN  spanForm' = [spanForm EXCEPT
                          !.ongoing = checked,
                          !.end = IF checked THEN EmptyText
                                  ELSE IF @ = EmptyText THEN getDefaultSpanEndValue(clock)
                                  ELSE @]
    /\ last' = BeforeEdit("ongoing", 0)
    /\ steps' = steps + 1
    /\ UNCHANGED <<dataVars, spans, birthInput, expectancyInput, screen, editingSpanId,
                   gridVars, viewport, pc>>

\* the 'click' listener of the Edit button of a row: beginEditSpan(span)
clickEdit ==
    /\ pc = "running"
    /\ steps < MaxSteps
    /\ \E k \in 1..Len(spans) :
         \E st \in { updateSpanFormState(Some(spans[k]), spans, birthInput, clock) } :
             /\ editingSpanId' = st.editing
             /\ spanForm' = st.form
             /\ last' = BeforeEdit("edit", spans[k].id)
    /\ steps' = steps + 1
    /\ UNCHANGED <<dataVars, spans, birthInput, expectancyInput, screen,
                   gridVars, viewport, pc>>

\* the 'click' listener of #cancel-edit: updateSpanFormState(null)
clickCancel ==
    /\ pc = "running"
    /\ steps < MaxSteps
    /\ \E st \in { updateSpanFormState(None, spans, birthInput, clock) } :
         /\ editingSpanId' = st.editing
         /\ spanForm' = st.form
    /\ last' = BeforeEdit("cancel", 0)
    /\ steps' = steps + 1
    /\ UNCHANGED <<dataVars, spans, birthInput, expectancyInput, screen,
                   gridVars, viewport, pc>>

\* the 'click' listener of #submit-span (and Enter in #span-title):
\* handleAddSpan(), then persistSpans, renderSpanList, renderLife and
\* updateSpanFormState(null) when the submission is accepted
clickSubmit ==
    /\ pc = "running"
    /\ steps < MaxSteps
    /\ \E id \in freshIds(spans) :
         \E r \in { handleAddSpan(spanForm, spans, editingSpanId, id) } :
           IF r.accepted
           THEN /\ spans' = r.spans
                /\ renderLifeOf(r.spans, birthInput, expectancyInput)
                /\ \E st \in { updateSpanFormState(None, r.spans, birthInput, clock) } :
                     /\ editingSpanId' = st.editing
                     /\ spanForm' = st.form
                /\ last' = [BeforeEdit("submit", 0) EXCEPT
                              !.accepted = TRUE, !.saved = TRUE, !.rebuilt = TRUE]
                /\ UNCHANGED <<screen, pointer, anim>>
           ELSE /\ last' = BeforeEdit("submit", 0)
                /\ UNCHANGED <<dataVars, appVars, gridVars>>
    /\ steps' = steps + 1
    /\ UNCHANGED <<viewport, pc>>

\* the 'click' listener of the remove button of a row
clickRemove ==
    /\ pc = "running"
    /\ steps < MaxSteps
    /\ \E k \in 1..Len(spans) :
         \E left \in { SelectSeq(spans, LAMBDA s : s.id # spans[k].id) } :
           /\ spans' = left
           /\ IF editingSpanId = Some(spans[k].id)
              THEN \E st \in { updateSpanFormState(None, left, birthInput, clock) } :
                     /\ editingSpanId' = st.editing
                     /\ spanForm' = st.form
              ELSE UNCHANGED <<editingSpanId, spanForm>>
           /\ renderLifeOf(left, birthInput, expectancyInput)
           /\ last' = [BeforeEdit("remove", spans[k].id) EXCEPT
                         !.saved = TRUE, !.rebuilt = TRUE]
    /\ steps' = steps + 1
    /\ UNCHANGED <<screen, pointer, anim, viewport, pc>>

\* the span lists in storage when the page opens
EditorLists ==
    { << >>,
      << [ id |-> 1, title |-> "span", start |-> 0, end |-> Some(70),
           color |-> SpanColors[1], openEnded |-> FALSE ] >>,
      << [ id |-> 1, title |-> "span", start |-> 0, end |-> Some(70),
           color |-> SpanColors[1], openEnded |-> FALSE ],
         [ id |-> 2, title |-> "span", start |-> 35, end |-> None,
           color |-> SpanColors[2], openEnded |-> TRUE ] >> }

InitEditor == InitAppWith(EditorLists, {210}, {NumText(1)})

NextEditor ==
    \/ initRender \/ initViewport
    \/ typeSpan \/ onOngoingChange \/ clickEdit \/ clickCancel
    \/ clickSubmit \/ clickRemove

SpecEditor == InitEditor /\ [][NextEditor]_vars

(***************************************************************************)
(* The snapshots of buildLifeData(), the clock moving while one is built.  *)
(***************************************************************************)
\* the instants `new Date()` of buildLifeData() may show
TodayClocks == {27, 30, 370, 800}

\* how far the clock may have moved when generateWeeks() reads it
ClockMoves == {0, 1}

InitToday == InitAppWith(StoredSpanLists(1), TodayClocks, ExpectancyInputs)

\* init(): renderLife()
todayRender ==
    /\ pc = "constructed"
    /\ \E d \in ClockMoves :
         /\ renderLifeAt(spans, birthInput, expectancyInput, clock + d, clock + d)
         /\ last' = [op |-> "build", ptr |-> None, today |-> clock, now |-> clock + d]
    /\ pc' = "rendered"
    /\ UNCHANGED <<spans, screen, editingSpanId, spanForm, pointer, viewport, steps, anim>>

\* the 'change' listener of #birthdate
todayBirthdateChange ==
    /\ pc = "running"
    /\ steps < MaxSteps
    /\ \E b \in BirthInputs, d \in ClockMoves :
         /\ b # birthInput
         /\ renderLifeAt(spans, b, expectancyInput, clock + d, clock + d)
         /\ last' = [op |-> "build", ptr |-> None, today |-> clock, now |-> clock + d]
    /\ steps' = steps + 1
    /\ UNCHANGED <<spans, screen, editingSpanId, spanForm, pointer, viewport, pc, anim>>

NextToday == todayRender \/ initViewport \/ todayBirthdateChange

SpecToday == InitToday /\ [][NextToday]_vars

(***************************************************************************)
(* The camera: the canvas events and the frames, with no span stored.      *)
(***************************************************************************)
InitView == InitApp({ << >> }, {210})

NextView ==
    \/ initRender \/ initViewport \/ onExpectancyChange
    \/ wheel \/ pointerdown \/ pointermove \/ pointerup \/ pointerleave \/ tick

SpecView == InitView /\ [][NextView]_vars

\* the window resized (resizeTo: window): the canvas and app.screen follow it,
\* down to no size at all
ZeroScreen == [width |-> 0, height |-> 0]
resize ==
    /\ pc = "running"
    /\ steps < MaxSteps
    /\ \E scr \in (Screens \cup {ZeroScreen}) \ {screen} : screen' = scr
    /\ last' = Before("resize", 0, 0, 0)
    /\ steps' = steps + 1
    /\ UNCHANGED <<dataVars, spans, birthInput, expectancyInput, editingSpanId, spanForm,
                   gridVars, viewport, pc>>

NextResize == NextView \/ resize

\* what #life-expectancy may hold when it is read: nothing, a word, or a
\* number from below 0 to far above 120; or there is no such element
ExpectancyTexts ==
    { EmptyText, WordText, NumText(-4), NumText(0), NumText(1), NumText(121),
      NumText(1000000) }
InitExpectancy == InitAppWith({ << >> }, {210}, ExpectancyTexts \cup {NoInput})
MaxEdits == 2
editExpectancy == steps < MaxEdits /\ onExpectancyChangeTo(ExpectancyTexts)

NextExpectancy == initRender \/ initViewport \/ editExpectancy

SpecExpectancy == InitExpectancy /\ [][NextExpectancy]_vars

\* a frame of the ticker with both of its listeners: animate of the grid,
\* added by its constructor, then update of the viewport.  last keeps the
\* world position the pointer had before the frame
ViewFrameDelta == 16
frame ==
    /\ pc = "running"
    /\ steps < MaxSteps
    /\ \E after \in {animate(cells, pointer, container, anim, defaultGridMotion,
                             ViewFrameDelta)} :
         /\ cells' = after.cells
         /\ pointer' = after.pointer
         /\ anim' = after.anim
    /\ container' = update(Val(viewport), container)
    /\ last' = [Before("frame", 0, 0, 0) EXCEPT !.x = pointer.x, !.y = pointer.y]
    /\ steps' = steps + 1
    /\ UNCHANGED <<dataVars, appVars, spanLanes, viewport, pc>>

NextFrame ==
    \/ initRender \/ initViewport
    \/ wheel \/ pointerdown \/ pointermove \/ pointerup \/ pointerleave \/ frame

SpecFrame == InitView /\ [][NextFrame]_vars

\* drags that start and end near the top and the bottom edge of the canvas
EdgePoints == { [x |-> Px(400), y |-> Px(10)], [x |-> Px(400), y |-> Px(700)] }
edgedown == pointerdownAt(EdgePoints)
edgemove == pointermoveTo(EdgePoints)

NextPan ==
    \/ initRender \/ initViewport
    \/ wheel \/ edgedown \/ edgemove \/ pointerup \/ tick

SpecPan == InitView /\ [][NextPan]_vars

SpecResize == InitView /\ [][NextResize]_vars

(***************************************************************************)
(* Claims about the span lanes and the camera.                             *)
(***************************************************************************)
\* C1: after renderSpans, any two placed spans that share a lane have disjoint
\* week ranges: one ends strictly before the other starts.
C1_LanesDisjoint ==
    \A i, j \in 1..Len(spanLanes) :
        (i < j /\ spanLanes[i].lane = spanLanes[j].lane) =>
            \/ spanLanes[i].endWeekIndex < spanLanes[j].startWeekIndex
            \/ spanLanes[j].endWeekIndex < spanLanes[i].startWeekIndex

running == pc = "running"
vpNow == Val(viewport)
vpBefore == Val(last.vp)

\* C6: after a wheel event at the view point P, the world point that was under
\* P before the event, W = (P - translation) / scale of the camera as it was
\* drawn, satisfies W * targetScale + targetPosition = P.
C6_ZoomToCursor ==
    last.op = "wheel" =>
        LET wx == Unscaled(last.x - last.cam.x, last.cam.scale)
            wy == Unscaled(last.y - last.cam.y, last.cam.scale)
        IN  /\ Scaled(wx, vpNow.targetScale) + vpNow.targetPosition.x = last.x
            /\ Scaled(wy, vpNow.targetScale) + vpNow.targetPosition.y = last.y

\* a wheel event while the camera is easing and the target scale is at its
\* upper limit already
C6_Witness ==
    /\ last.op = "wheel"
    /\ last.deltaY < 0
    /\ last.cam.scale # vpBefore.targetScale
    /\ last.cam.x # vpBefore.targetPosition.x
    /\ vpBefore.targetScale = vpNow.config.maxScale
    /\ vpNow.targetScale = vpNow.config.maxScale

\* C7: the target scale and the rendered scale stay within
\* [minScale, maxScale].
C7_ScaleInLimits ==
    running =>
        /\ vpNow.config.minScale <= vpNow.targetScale
        /\ vpNow.targetScale <= vpNow.config.maxScale
        /\ vpNow.config.minScale <= container.scale
        /\ container.scale <= vpNow.config.maxScale

\* a frame after a zoom that the upper limit cut short, and one after a zoom
\* cut short by the lower limit
C7_Witness ==
    /\ running
    /\ last.op = "update"
    /\ container.scale # last.cam.scale
    /\ vpNow.targetScale \in {vpNow.config.maxScale, vpNow.config.minScale}
    /\ container.scale # vpNow.targetScale

\* C8: a wheel event sets the target scale to clamp(targetScale * zoomFactor)
\* exactly when its delta is negative, and to clamp(targetScale / zoomFactor)
\* for every other delta.
C8_WheelDirection ==
    last.op = "wheel" =>
        LET cfg == vpNow.config
            before == vpBefore.targetScale
        IN  vpNow.targetScale =
               IF last.deltaY < 0
               THEN Min(Max(MulDiv(before, cfg.zoomFactor, ScaleUnit), cfg.minScale),
                        cfg.maxScale)
               ELSE Min(Max(MulDiv(before, ScaleUnit, cfg.zoomFactor), cfg.minScale),
                        cfg.maxScale)

\* C9: while a drag is active a pointer-move event moves the rendered
\* translation by the pointer's displacement since the previous pointer event
\* and sets the target translation to it, and a frame that follows at once
\* does not move the translation.
C9_DragOneToOne ==
    /\ (last.op = "pointermove" /\ vpBefore.isDragging) =>
          /\ container.x = last.cam.x + (last.x - Val(last.prev).x)
          /\ container.y = last.cam.y + (last.y - Val(last.prev).y)
          /\ container.scale = last.cam.scale
          /\ vpNow.targetPosition = [x |-> container.x, y |-> container.y]
    /\ (last.op = "update" /\ last.prevOp = "pointermove" /\ vpBefore.isDragging) =>
          /\ container.x = last.cam.x
          /\ container.y = last.cam.y

\* a pointer-move that drags a camera that was easing towards another place
C9_Witness ==
    /\ last.op = "pointermove"
    /\ vpBefore.isDragging
    /\ last.x # Val(last.prev).x
    /\ last.cam.x # vpBefore.targetPosition.x
    /\ container.x # last.cam.x

centredX == Px(screen.width - (52 * (11 + 10) + 170)) \div 2 + Px(170)
centredY == Px(screen.height - lifeData.lifeExpectancyYears * (11 + 10)) \div 2

\* C10: render() re-centres the camera only when the grid held no cells; a
\* render on a grid that has cells leaves the scale, the translation, the
\* target scale and the target translation as they were.
C10_RenderKeepsCamera ==
    last.op = "render" =>
        IF last.ncells > 0
        THEN container = last.cam /\ viewport = last.vp
        ELSE /\ container.x = centredX
             /\ container.y = centredY
             /\ container.scale = last.cam.scale

\* a render that changes the number of cells while the camera is easing, away
\* from the centre
C10_Witness ==
    /\ last.op = "render"
    /\ last.ncells > 0
    /\ Len(cells) # last.ncells
    /\ container.scale # vpNow.targetScale
    /\ container.x # centredX
    /\ container.y # centredY

(***************************************************************************)
(* The GridLayout interface as a state machine: render(data), the pointer  *)
(* listeners of registerPointerTracking and the frames of the ticker.      *)
(***************************************************************************)
MaxGridSteps == 4

GridTimes == {-5, 31, 40, 800}
FrameDeltas == {0, 100}

\* a LifeData after generateWeeks(), as buildLifeData() makes one: an event
\* on day 30 and, for withSpan, one open-ended span from day 0
snapshot(birthDate, years, withSpan, t) ==
    LET fresh == addEvent(NewLifeData(birthDate, years), 30, "Today", "milestone")
        pushed == IF withSpan
                  THEN [fresh EXCEPT !.spans =
                          << [ id |-> 1, title |-> "span", startDate |-> 0,
                               endDate |-> None, color |-> SpanColors[1] ] >>]
                  ELSE fresh
    IN  generateWeeks(pushed, t, t)

GridData ==
    { snapshot(b, y, sp, t) :
        b \in BirthDates, y \in 0..MaxYears, sp \in BOOLEAN, t \in GridTimes }

AnimData == { snapshot(0, y, FALSE, 31) : y \in {0, MaxYears} }

\* the centre of the cell in column col of row row (render: cx, cy)
cellCentre(col, row) ==
    [ x |-> Px(col * (weekSize + gap)) + Px(weekSize) \div 2,
      y |-> Px(row * (weekSize + gap)) + Px(weekSize) \div 2 ]

\* the world points the pointer events of the model are over: the centre of
\* the first cell, the point midway between the first two cells, a point
\* 9 pixels off the centre of the second cell, and a point 120 pixels left of
\* the grid, out of reach of every cell
WorldPoints ==
    { cellCentre(0, 0),
      [cellCentre(0, 0) EXCEPT !.x = @ + Px(weekSize + gap) \div 2],
      [cellCentre(1, 0) EXCEPT !.x = @ + Px(9)],
      [cellCentre(0, 0) EXCEPT !.x = @ - Px(120)] }

InitGrid ==
    /\ clock = 31
    /\ lifeData = NewLifeData(0, 0)
    /\ nowRead = None
    /\ spans = << >>
    /\ birthInput = None
    /\ expectancyInput = NumText(1)
    /\ screen \in Screens
    /\ editingSpanId = None
    /\ spanForm = << >>
    /\ cells = << >>
    /\ spanLanes = << >>
    /\ container = [x |-> 0, y |-> 0, scale |-> Dec(1, 1)]
    /\ pointer = [x |-> 0, y |-> 0, viewX |-> 0, viewY |-> 0, active |-> FALSE]
    /\ anim = newAnim
    /\ viewport = None
    /\ pc = "grid"
    /\ last = [op |-> "new", infl |-> << >>, entered |-> FALSE]
    /\ steps = 0

\* gridLayout.render(data); last keeps how many cells there were and whether
\* one of them was hot
gridRender(dataSet) ==
    /\ pc = "grid"
    /\ \E data \in dataSet :
         LET newCells == renderCells(data, defaultGridPalette)
         IN  /\ lifeData' = data
             /\ cells' = newCells
             /\ spanLanes' = renderSpans(data, newCells)
             /\ container' = renderCamera(data, Len(cells) > 0, container, screen)
    /\ last' = [op |-> "render", ncells |-> Len(cells), infl |-> << >>,
                entered |-> last.entered,
                hot |-> \E k \in 1..Len(cells) :
                           cells[k].hoverHeat > 0 /\ cells[k].focusHeat > 0]
    /\ UNCHANGED <<clock, nowRead, appVars, pointer, anim, viewport, pc, steps>>

\* updatePointer: a 'pointermove' or 'pointerdown' event over a world point
gridPointerMove ==
    /\ pc = "grid"
    /\ steps < MaxGridSteps
    /\ \E w \in WorldPoints :
         pointer' = setPointerFromView(Scaled(w.x, container.scale) + container.x,
                                       Scaled(w.y, container.scale) + container.y,
                                       container)
    /\ last' = [op |-> "pointer", infl |-> last.infl, entered |-> TRUE]
    /\ steps' = steps + 1
    /\ UNCHANGED <<dataVars, appVars, cells, spanLanes, container, anim, viewport, pc>>

\* the 'pointerleave' listener
gridPointerLeave ==
    /\ pc = "grid"
    /\ steps < MaxGridSteps
    /\ pointer.active
    /\ pointer' = [pointer EXCEPT !.active = FALSE]
    /\ last' = [op |-> "leave", infl |-> last.infl, entered |-> last.entered]
    /\ steps' = steps + 1
    /\ UNCHANGED <<dataVars, appVars, cells, spanLanes, container, anim, viewport, pc>>

\* a frame of the ticker: animate(ticker.deltaMS).  last keeps the state
\* before the frame, the cell the frame focused and the influence of the
\* pointer on every cell in this frame and in the frame before; entered tells
\* whether the pointer was ever over the canvas
gridAnimate ==
    /\ pc = "grid"
    /\ steps < MaxGridSteps
    /\ \E deltaMs \in FrameDeltas :
         \E after \in {animate(cells, pointer, container, anim, defaultGridMotion,
                                  deltaMs)} :
             /\ cells' = after.cells
             /\ pointer' = after.pointer
             /\ anim' = after.anim
             /\ last' = [ op |-> "animate", deltaMs |-> deltaMs,
                          cells |-> cells, pointer |-> pointer, anim |-> anim,
                          focused |-> resolveHoveredCell(cells, pointer', defaultGridMotion),
                          infl |-> SubSeq([k \in 1..Len(cells) |->
                                             influenceOf(cells[k], pointer',
                                                         defaultGridMotion)],
                                          1, Len(cells)),
                          prevInfl |-> last.infl, entered |-> last.entered ]
    /\ steps' = steps + 1
    /\ UNCHANGED <<dataVars, appVars, spanLanes, container, viewport, pc>>

\* render(data) called once on data whose span bounds were not computed from
\* its weeks: a life of MaxYears years with up to MaxBoundList spans, some
\* of them with a week index beyond the last week
MaxBoundList == 3
WeekPairs == { <<0, 60>>, <<5, 200>>, <<10, 20>>, <<70, 80>>, <<200, 210>> }
RECURSIVE PairLists(_)
PairLists(n) ==
    IF n = 0 THEN { << >> }
    ELSE LET shorter == PairLists(n - 1)
         IN  shorter \cup { Append(l, pr) : l \in { m \in shorter : Len(m) = n - 1 },
                                           pr \in WeekPairs }
boundsOfPairs(prs) ==
    [k \in 1..Len(prs) |->
        [ id |-> k, title |-> "span", startDate |-> 7 * prs[k][1],
          endDate |-> Some(7 * prs[k][2]), color |-> SpanColors[((k - 1) % 2) + 1],
          startWeekIndex |-> prs[k][1], endWeekIndex |-> prs[k][2] ]]
SkipData ==
    { [snapshot(0, MaxYears, FALSE, 31) EXCEPT !.spansWithBounds = boundsOfPairs(prs)] :
        prs \in PairLists(MaxBoundList) }
skipRender == last.op = "new" /\ gridRender(SkipData)

NextSkip == skipRender

SpecSkip == InitGrid /\ [][NextSkip]_vars

NextCells == gridRender(GridData)

SpecCells == InitGrid /\ [][NextCells]_vars

NextAnim == gridRender(AnimData) \/ gridPointerMove \/ gridPointerLeave \/ gridAnimate

SpecAnim == InitGrid /\ [][NextAnim]_vars

(***************************************************************************)
(* Claims about the cells and their animation.                             *)
(***************************************************************************)
weekOf(k) == lifeData.weeks[k]
hasEvent(k) == Len(weekOf(k).events) > 0
tinted(color, k) ==
    IF Len(weekOf(k).spans) = 0 THEN color
    ELSE mixColor(color, Val(mixSpanColors(weekOf(k).spans)), 7, 10)

\* C11: the colour of every cell is the tint of the spans of its week laid
\* over the event colour when the week has an event, else over the past
\* colour when it is past, else over the current colour when it is current,
\* else over the future colour.
C11_BaseColorPriority ==
    \A k \in 1..Len(cells) :
        cells[k].baseColor =
            tinted(IF hasEvent(k) THEN defaultGridPalette.event
                   ELSE IF weekOf(k).isPast THEN defaultGridPalette.past
                   ELSE IF weekOf(k).isCurrent THEN defaultGridPalette.current
                   ELSE defaultGridPalette.future, k)

\* a grid with a past week that has an event, a current week without one, a
\* past and a future week without events, and a week under a span
C11_Witness ==
    /\ \E k \in 1..Len(cells) : hasEvent(k) /\ weekOf(k).isPast
    /\ \E k \in 1..Len(cells) : ~hasEvent(k) /\ weekOf(k).isCurrent
    /\ \E k \in 1..Len(cells) : ~hasEvent(k) /\ weekOf(k).isPast
    /\ \E k \in 1..Len(cells) :
          ~hasEvent(k) /\ ~weekOf(k).isPast /\ ~weekOf(k).isCurrent
    /\ \E k \in 1..Len(cells) : Len(weekOf(k).spans) > 0

framed == last.op = "animate" /\ Len(cells) > 0
\* the frame before this one was a frame of the same cells
framedBefore == framed /\ Len(last.prevInfl) = Len(cells)

\* C12: in a frame in which the pointer is inactive, or in which the
\* influence of the pointer on a cell is strictly less than in the frame
\* before, the hoverHeat of the cell does not increase; and no hoverHeat is
\* ever below 0.
C12_HeatMonotone ==
    /\ \A k \in 1..Len(cells) : cells[k].hoverHeat >= 0
    /\ framed =>
         \A k \in 1..Len(cells) :
            (\/ ~pointer.active
             \/ framedBefore /\ last.infl[k] < last.prevInfl[k])
            => cells[k].hoverHeat <= last.cells[k].hoverHeat

\* a frame of positive length in which the pointer has moved away from a
\* cell it still influences, and the heat of the cell has fallen
C12_Witness ==
    /\ framedBefore
    /\ last.deltaMs > 0
    /\ pointer.active
    /\ \E k \in 1..Len(cells) :
          /\ 0 < last.infl[k]
          /\ last.infl[k] < last.prevInfl[k]
          /\ cells[k].hoverHeat < last.cells[k].hoverHeat

\* the pointer position the frame used is the centre of the c-th cell
onCell(c) ==
    pointer.active /\ pointer.x = cells[c].baseX /\ pointer.y = cells[c].baseY

\* one hundredth of a full heat: a heat below it counts as gone
heatFloor == Dec(1, 100)

\* the heat fell in the frame, or is gone, or the frame had no length
decayed(before, after) ==
    /\ after <= before
    /\ (last.deltaMs > 0 /\ before >= heatFloor) => after < before

\* the heat rose in the frame, or is full, or the frame had no length
grown(before, after) ==
    /\ after >= before
    /\ (last.deltaMs > 0 /\ before <= ScaleUnit - heatFloor) => after > before

\* C13: in a frame with the pointer active at the centre of a cell c, c is
\* the focused cell, its focusHeat moves towards 1, and the focusHeat of
\* every other cell does not increase and falls while the frame has a
\* length, until it is gone.
C13_FocusOnCell ==
    framed =>
        \A c \in 1..Len(cells) :
            onCell(c) =>
                /\ last.focused = Some(c)
                /\ \A k \in 1..Len(cells) :
                      IF k = c
                      THEN grown(last.cells[k].focusHeat, cells[k].focusHeat)
                      ELSE decayed(last.cells[k].focusHeat, cells[k].focusHeat)

\* a frame with the pointer at the centre of a cell, in which the focusHeat
\* another cell had gained falls
C13_Witness ==
    /\ framed
    /\ last.deltaMs > 0
    /\ \E c, k \in 1..Len(cells) :
          /\ onCell(c)
          /\ k # c
          /\ last.cells[k].focusHeat >= heatFloor
          /\ cells[k].focusHeat < last.cells[k].focusHeat
          /\ cells[c].focusHeat > last.cells[c].focusHeat

\* every heat of the cells and of the two labels is 0 and no label shows
allCold ==
    /\ \A k \in 1..Len(cells) :
          cells[k].hoverHeat = 0 /\ cells[k].yearHeat = 0 /\ cells[k].focusHeat = 0
    /\ anim.yearLabel.heat = 0 /\ anim.yearLabel.alpha = 0
    /\ anim.weekLabel.heat = 0 /\ anim.weekLabel.alpha = 0

\* C14: in a frame with the pointer inactive no cell is focused (so no year
\* is hovered), and the hoverHeat, yearHeat and focusHeat of every cell and
\* the heat of both labels do not increase and fall while the frame has a
\* length, until they are gone; as long as the pointer never was active all
\* of them are 0 and both labels have opacity 0.
C14_InactiveDecays ==
    /\ (framed /\ ~pointer.active) =>
          /\ last.focused = None
          /\ \A k \in 1..Len(cells) :
                /\ decayed(last.cells[k].hoverHeat, cells[k].hoverHeat)
                /\ decayed(last.cells[k].yearHeat, cells[k].yearHeat)
                /\ decayed(last.cells[k].focusHeat, cells[k].focusHeat)
          /\ decayed(last.anim.yearLabel.heat, anim.yearLabel.heat)
          /\ decayed(last.anim.weekLabel.heat, anim.weekLabel.heat)
    /\ ~last.entered => (~pointer.active /\ allCold)

\* a frame of positive length after the pointer left the canvas, in which
\* the three heats of a cell and the heat of both labels fall
C14_Witness ==
    /\ framed
    /\ ~pointer.active
    /\ last.entered
    /\ last.deltaMs > 0
    /\ \E k \in 1..Len(cells) :
          /\ last.cells[k].hoverHeat >= heatFloor
          /\ last.cells[k].yearHeat >= heatFloor
          /\ last.cells[k].focusHeat >= heatFloor
          /\ cells[k].hoverHeat < last.cells[k].hoverHeat
          /\ cells[k].yearHeat < last.cells[k].yearHeat
          /\ cells[k].focusHeat < last.cells[k].focusHeat
    /\ last.anim.yearLabel.heat >= heatFloor
    /\ last.anim.weekLabel.heat >= heatFloor
    /\ anim.yearLabel.heat < last.anim.yearLabel.heat
    /\ anim.weekLabel.heat < last.anim.weekLabel.heat

(***************************************************************************)
(* Claims about the lane layout, the empty grid and the camera limits.     *)
(***************************************************************************)
\* the lane of every drawn span, in drawing order
lanesIn(drawn) == [k \in 1..Len(drawn) |-> drawn[k].lane]

\* the data with nothing left of a span but its two week indices
boundsOnly(data) ==
    [data EXCEPT !.spansWithBounds =
        [k \in 1..Len(data.spansWithBounds) |->
            [ id |-> 0, title |-> "", startDate |-> 0, endDate |-> None,
              color |-> 0,
              startWeekIndex |-> data.spansWithBounds[k].startWeekIndex,
              endWeekIndex |-> data.spansWithBounds[k].endWeekIndex ]]]

\* C15: the lane layout is deterministic: laying the spans of the rendered
\* data out again over the same cells gives what was drawn, and the lanes
\* are those of a list that keeps only the start and end week indices of
\* the spans, in the same order.
C15_LanesDeterministic ==
    pc # "constructed" =>
        /\ renderSpans(lifeData, cells) = spanLanes
        /\ lanesIn(renderSpans(boundsOnly(lifeData), cells)) = lanesIn(spanLanes)

\* two spans drawn in different lanes that differ in colour and in being
\* open-ended
C15_Witness ==
    /\ pc # "constructed"
    /\ Len(spanLanes) = 2
    /\ spanLanes[1].lane # spanLanes[2].lane
    /\ spanLanes[1].dashes # spanLanes[2].dashes
    /\ lifeData.spansWithBounds[1].color # lifeData.spansWithBounds[2].color

\* C16: a frame over an empty cell set changes nothing: elapsedMs, the
\* pointer with its world position, and the heat, position, target, text and
\* key of both labels are what they were, and so are the cells and the
\* camera.
C16_EmptyFrameNoOp ==
    (last.op = "animate" /\ Len(cells) = 0) =>
        /\ anim = last.anim
        /\ pointer = last.pointer
        /\ cells = last.cells

\* a frame of positive length over an empty cell set, with the pointer active
\* at a world position that is not the one its view position gives under the
\* camera
C16_Witness ==
    /\ last.op = "animate"
    /\ Len(cells) = 0
    /\ last.deltaMs > 0
    /\ pointer.active
    /\ setPointerFromView(pointer.viewX, pointer.viewY, container) # pointer

\* C17: a frame of the viewport while the canvas has no size leaves the
\* scale and the translation of the camera as they were.
C17_ZeroSizeSkipsUpdate ==
    (last.op = "update" /\ screen.width = 0 /\ screen.height = 0) =>
        container = last.cam

\* the bounding box of the grid with its span gutter, on the canvas
gridBox ==
    [ left |-> container.x - Scaled(Px(spanGutter), container.scale),
      right |-> container.x
                + Scaled(Px(weeksPerYear * (weekSize + gap)), container.scale),
      top |-> container.y,
      bottom |-> container.y
                 + Scaled(Px(lifeData.lifeExpectancyYears * (weekSize + gap)),
                          container.scale) ]

\* C18: once the grid is rendered, the camera keeps the bounding box of the
\* grid at least partly inside the viewport, whatever was dragged, wheeled
\* or advanced.
C18_PanWithinBounds ==
    pc = "running" =>
        /\ gridBox.right >= 0 /\ gridBox.left <= Px(screen.width)
        /\ gridBox.bottom >= 0 /\ gridBox.top <= Px(screen.height)

\* the lanes in use before the j-th drawn span, and the drawn span that was
\* the last to go to lane l before the j-th
lanesBefore(j) == { spanLanes[i].lane : i \in 1..(j - 1) }
lastIn(l, j) ==
    LET placed == { i \in 1..(j - 1) : spanLanes[i].lane = l }
    IN  spanLanes[CHOOSE i \in placed : \A h \in placed : h <= i]

\* lane l takes the j-th drawn span: its last span ends strictly before the
\* start week, or in a year strictly earlier than the start year
laneTakes(l, j) ==
    LET end == lastIn(l, j).endWeekIndex
        start == spanLanes[j].startWeekIndex
    IN  end < start \/ Floor(end, weeksPerYear) < Floor(start, weeksPerYear)

\* C19: the spans are drawn in ascending (startWeekIndex, endWeekIndex)
\* order, and each is in the lowest lane whose last span ends strictly before
\* its start week or in a year strictly earlier than its start year, or else
\* in a new lane numbered with the count of lanes so far.
C19_LaneChoiceRule ==
    \A j \in 1..Len(spanLanes) :
        /\ j > 1 => spanBefore(spanLanes[j - 1], spanLanes[j])
        /\ LET taking == { l \in lanesBefore(j) : laneTakes(l, j) }
           IN  spanLanes[j].lane =
                   IF taking = {} THEN Cardinality(lanesBefore(j))
                   ELSE CHOOSE l \in taking : \A m \in taking : l <= m

\* the cells at the least distance from the pointer the frame used, among
\* those within the detection radius
nearest ==
    LET thresholdSq == defaultGridMotion.hover.detectRadius
                       * defaultGridMotion.hover.detectRadius
        near == { k \in 1..Len(cells) : distSqOf(cells[k], pointer) <= thresholdSq }
    IN  { k \in near :
            \A h \in near : distSqOf(cells[k], pointer) <= distSqOf(cells[h], pointer) }

\* C20: in a frame with the pointer active, the focused cell is the first in
\* cell order of the cells at the least distance within the detection
\* radius, and there is none when no cell is that near.
C20_FocusFirstOfTies ==
    (framed /\ pointer.active) =>
        last.focused = IF nearest = {} THEN None
                       ELSE Some(CHOOSE k \in nearest : \A h \in nearest : k <= h)

(***************************************************************************)
(* Claims about the focus, the heats and the opacity of the cells.         *)
(***************************************************************************)
\* the cells whose focusHeat, and those whose yearHeat, rose in the frame
focusRising == { k \in 1..Len(cells) : cells[k].focusHeat > last.cells[k].focusHeat }
yearRising == { k \in 1..Len(cells) : cells[k].yearHeat > last.cells[k].yearHeat }

\* C21: the cell a frame focuses is one at the least squared distance from
\* the pointer among the cells within detectRadius squared; with the pointer
\* inactive, no cell that near, or no cells at all there is no focused cell
\* and no hovered year (no yearHeat and no label heat rises).  The focusHeat
\* of at most one cell rises in a frame, that of the focused cell.
C21_FocusIsNearest ==
    last.op = "animate" =>
        /\ IF pointer.active /\ nearest # {}
           THEN IsSome(last.focused) /\ Val(last.focused) \in nearest
           ELSE /\ last.focused = None
                /\ yearRising = {}
                /\ anim.yearLabel.heat <= last.anim.yearLabel.heat
                /\ anim.weekLabel.heat <= last.anim.weekLabel.heat
        /\ focusRising \subseteq (IF IsSome(last.focused) THEN {Val(last.focused)} ELSE {})

\* a frame of positive length that focuses the nearer of two cells within
\* the detection radius
C21_Witness ==
    /\ framed
    /\ last.deltaMs > 0
    /\ pointer.active
    /\ Cardinality(nearest) = 1
    /\ \E k \in 1..Len(cells) :
          /\ k \notin nearest
          /\ distSqOf(cells[k], pointer) <= defaultGridMotion.hover.detectRadius
                                            * defaultGridMotion.hover.detectRadius
    /\ focusRising = nearest

\* 1 - d / radius for a pointer at distance d within the hover radius of the
\* cell, 0 beyond it or with the pointer inactive
linearFalloff(cell, ptr) ==
    LET radius == defaultGridMotion.hover.radius
        distSq == distSqOf(cell, ptr)
    IN  IF ptr.active /\ distSq < radius * radius
        THEN ScaleUnit - MulDiv(sqrt(distSq), ScaleUnit, radius)
        ELSE 0

\* C22: the influence of the pointer on a cell in a frame is the linear
\* falloff 1 - d / radius, exactly 1 with the pointer on the centre of the
\* cell, and the hoverHeat after the frame is the greater of the influence
\* and the hoverHeat before times exp(-deltaMs * heatDecay).
C22_LinearFalloff ==
    framed =>
        \A k \in 1..Len(cells) :
            /\ last.infl[k] = linearFalloff(cells[k], pointer)
            /\ onCell(k) => last.infl[k] = ScaleUnit
            /\ cells[k].hoverHeat =
                   Max(linearFalloff(cells[k], pointer),
                       MulDiv(last.cells[k].hoverHeat,
                              decayOf(last.deltaMs, defaultGridMotion.hover.heatDecay),
                              ScaleUnit))

\* a heat is between 0 and 1
unitHeat(h) == 0 <= h /\ h <= ScaleUnit

\* C23: whatever was rendered, pointed at and animated, the hoverHeat,
\* yearHeat and focusHeat of every cell and the heat of both labels lie
\* between 0 and 1.
C23_HeatsInUnitRange ==
    /\ \A k \in 1..Len(cells) :
          /\ unitHeat(cells[k].hoverHeat)
          /\ unitHeat(cells[k].yearHeat)
          /\ unitHeat(cells[k].focusHeat)
    /\ unitHeat(anim.yearLabel.heat)
    /\ unitHeat(anim.weekLabel.heat)

\* after a second frame of positive length on the same cell, every heat of
\* that cell and of the labels is above one half
C23_Witness ==
    /\ framed
    /\ last.deltaMs > 0
    /\ \E k \in 1..Len(cells) :
          /\ onCell(k)
          /\ last.cells[k].focusHeat > 0
          /\ cells[k].hoverHeat > ScaleUnit \div 2
          /\ cells[k].yearHeat > ScaleUnit \div 2
          /\ cells[k].focusHeat > ScaleUnit \div 2
    /\ anim.yearLabel.heat > ScaleUnit \div 2
    /\ anim.weekLabel.heat > ScaleUnit \div 2

\* the value a heat has after a frame that smooths it towards target at a rate
smoothed(before, target, rate) ==
    target + MulDiv(before - target, decayOf(last.deltaMs, rate), ScaleUnit)

\* after lies between before and target: the heat moved towards its target
\* and did not cross it
towards(before, after, target) ==
    \/ before <= after /\ after <= target
    \/ target <= after /\ after <= before

\* the targets of the k-th cell in the frame that focused last.focused
yearTargetIn(k) ==
    IF IsSome(last.focused) /\ cells[k].yearIndex = cells[Val(last.focused)].yearIndex
    THEN ScaleUnit ELSE 0
focusTargetIn(k) == IF last.focused = Some(k) THEN ScaleUnit ELSE 0

\* C24: in a frame the yearHeat of a cell goes towards 1 exactly when there
\* is a focused cell of the same year and towards 0 otherwise, its focusHeat
\* towards 1 exactly when it is the focused cell; each becomes
\* target + (value - target) * exp(-deltaMs * followRate), between the value
\* before and the target.
C24_HeatsFollowTargets ==
    framed =>
        \A k \in 1..Len(cells) :
            /\ cells[k].yearHeat =
                   smoothed(last.cells[k].yearHeat, yearTargetIn(k),
                            defaultGridMotion.year.followRate)
            /\ cells[k].focusHeat =
                   smoothed(last.cells[k].focusHeat, focusTargetIn(k),
                            defaultGridMotion.selection.followRate)
            /\ towards(last.cells[k].yearHeat, cells[k].yearHeat, yearTargetIn(k))
            /\ towards(last.cells[k].focusHeat, cells[k].focusHeat, focusTargetIn(k))

\* a frame of positive length with a focused cell, in which the yearHeat of
\* another cell of its year rises and that of a cell of another year falls
C24_Witness ==
    /\ framed
    /\ last.deltaMs > 0
    /\ IsSome(last.focused)
    /\ \E k, j \in 1..Len(cells) :
          /\ k # Val(last.focused)
          /\ yearTargetIn(k) = ScaleUnit
          /\ cells[k].yearHeat > last.cells[k].yearHeat
          /\ cells[k].focusHeat = 0
          /\ yearTargetIn(j) = 0
          /\ cells[j].yearHeat < last.cells[j].yearHeat

\* C25: the alpha of every cell is between 0 and 1 in every reachable state.
C25_AlphaInUnitRange ==
    \A k \in 1..Len(cells) : 0 <= cells[k].alpha /\ cells[k].alpha <= ScaleUnit

\* the k-th cell is the cell of the k-th week of the rendered data
cellOfWeek(k) ==
    /\ cells[k].index = lifeData.weeks[k].index
    /\ cells[k].yearIndex = lifeData.weeks[k].yearIndex
    /\ cells[k].startDate = lifeData.weeks[k].startDate

\* C26: after every render(data) there is exactly one cell per week of
\* data.weeks, in index order, each new: its three heats are 0 and its alpha
\* is the initial 0.85, whatever the cells before had; and every frame sees
\* the cells of the rendered data only, as many after it as before.
C26_RebuildReplacesCells ==
    /\ Len(cells) = Len(lifeData.weeks)
    /\ \A k \in 1..Len(cells) : cellOfWeek(k)
    /\ last.op = "render" =>
          \A k \in 1..Len(cells) :
              /\ cells[k].hoverHeat = 0
              /\ cells[k].yearHeat = 0
              /\ cells[k].focusHeat = 0
              /\ cells[k].alpha = Dec(85, 100)
    /\ last.op = "animate" => Len(last.cells) = Len(cells)

\* a render over cells of which one was hot
C26_Witness ==
    /\ last.op = "render"
    /\ last.hot
    /\ Len(cells) > 0

(***************************************************************************)
(* Claims about the easing of the camera and the pointer in world space.   *)
(***************************************************************************)
\* the value a frame of the viewport gives a camera coordinate
blended(before, target, fraction) ==
    before + MulDiv(target - before, fraction, ScaleUnit)

\* C27: a frame of the viewport sets the scale to
\* scale + (targetScale - scale) * scaleLerp and each translation coordinate
\* to itself + (target - itself) * positionLerp, whatever time has passed;
\* each ends between what it was and its target.
C27_UpdateBlends ==
    last.op = "update" =>
        /\ container.scale = blended(last.cam.scale, vpNow.targetScale,
                                     vpNow.config.scaleLerp)
        /\ container.x = blended(last.cam.x, vpNow.targetPosition.x,
                                 vpNow.config.positionLerp)
        /\ container.y = blended(last.cam.y, vpNow.targetPosition.y,
                                 vpNow.config.positionLerp)
        /\ towards(last.cam.scale, container.scale, vpNow.targetScale)
        /\ towards(last.cam.x, container.x, vpNow.targetPosition.x)
        /\ towards(last.cam.y, container.y, vpNow.targetPosition.y)

\* the second of two frames in a row after a wheel event: the scale and the
\* translation were off their targets and came nearer
C27_Witness ==
    /\ last.op = "update"
    /\ last.prevOp = "update"
    /\ last.cam.scale # vpNow.targetScale
    /\ container.scale # last.cam.scale
    /\ last.cam.x # vpNow.targetPosition.x
    /\ container.x # last.cam.x
    /\ container.y # last.cam.y

\* C28: with the pointer active, the world position a frame of the grid uses
\* is (view position - translation) / scale for the camera the frame
\* started with, and the influence on every cell is that of this position.
C28_PointerRederived ==
    (last.op = "frame" /\ pointer.active /\ Len(cells) > 0) =>
        /\ pointer.x = Unscaled(pointer.viewX - last.cam.x, last.cam.scale)
        /\ pointer.y = Unscaled(pointer.viewY - last.cam.y, last.cam.scale)
        /\ \A k \in 1..Len(cells) :
              cells[k].hoverHeat >= influenceOf(cells[k], pointer, defaultGridMotion)

\* a frame with the pointer active that moved its world position, the camera
\* having changed since the pointer event, and that heated a cell
C28_Witness ==
    /\ last.op = "frame"
    /\ pointer.active
    /\ Len(cells) > 0
    /\ (pointer.x # last.x \/ pointer.y # last.y)
    /\ \E k \in 1..Len(cells) : cells[k].hoverHeat > 0

(***************************************************************************)
(* Claims about the life expectancy read and the spans without a cell.     *)
(***************************************************************************)
\* C29: whatever #life-expectancy holds when the life is rebuilt, the
\* expectancy used is an integer from 1 to 120, 90 when there is no input,
\* no text or no number in it, and there are 52 cells a year, at most 6240.
C29_ExpectancyInRange ==
    pc # "constructed" =>
        /\ lifeData.lifeExpectancyYears \in 1..120
        /\ Len(cells) = weeksPerYear * lifeData.lifeExpectancyYears
        /\ Len(cells) <= 6240
        /\ (last.op = "render" /\ last.input.kind # "int") =>
              lifeData.lifeExpectancyYears = 90

\* a rebuild with 1000000 in the input, which gives 120 years, after one
\* with a negative number, which gave 1 year
C29_Witness ==
    /\ last.op = "render"
    /\ last.input = NumText(1000000)
    /\ last.ncells = weeksPerYear
    /\ lifeData.lifeExpectancyYears = 120
    /\ Len(cells) = 6240

\* there is a cell for the week index
hasCell(weekIndex) == \E k \in 1..Len(cells) : cells[k].index = weekIndex

\* the spans of the rendered data that have a cell at both ends
anchored ==
    SelectSeq(lifeData.spansWithBounds,
              LAMBDA sp : hasCell(sp.startWeekIndex) /\ hasCell(sp.endWeekIndex))

\* C30: a span with no cell for its start or its end week index is not
\* drawn, and what is drawn, lanes included, is what is drawn for the data
\* without such spans.
C30_SpanWithoutCellSkipped ==
    last.op = "render" =>
        /\ { spanLanes[k].id : k \in 1..Len(spanLanes) }
               = { anchored[k].id : k \in 1..Len(anchored) }
        /\ Len(spanLanes) = Len(anchored)
        /\ spanLanes = renderSpans([lifeData EXCEPT !.spansWithBounds = anchored], cells)

\* three spans of which the second in start order has no cell for its end
\* and is skipped, the other two being drawn in lanes 0 and 1
C30_Witness ==
    /\ last.op = "render"
    /\ Len(lifeData.spansWithBounds) = 3
    /\ Len(spanLanes) = 2
    /\ spanLanes[1].lane = 0
    /\ spanLanes[2].lane = 1
    /\ \E k \in 1..3 :
          LET sp == lifeData.spansWithBounds[k]
          IN  /\ hasCell(sp.startWeekIndex)
              /\ ~hasCell(sp.endWeekIndex)
              /\ spanLanes[1].startWeekIndex < sp.startWeekIndex
              /\ sp.startWeekIndex < spanLanes[2].startWeekIndex

(***************************************************************************)
(* Claims about the flags of the weeks and the spans of LifeData.          *)
(***************************************************************************)
\* C31: in the weeks generateWeeks() made at most one is flagged isCurrent,
\* none is both isPast and isCurrent, and around a current week every
\* earlier week is isPast and every later week is neither.
C31_WeekFlags ==
    generated =>
        LET ws == lifeData.weeks
        IN  /\ \A j, k \in 1..Len(ws) : (ws[j].isCurrent /\ ws[k].isCurrent) => j = k
            /\ \A k \in 1..Len(ws) : ~(ws[k].isPast /\ ws[k].isCurrent)
            /\ \A k \in 1..Len(ws) :
                  ws[k].isCurrent =>
                      /\ \A j \in 1..(k - 1) : ws[j].isPast
                      /\ \A j \in (k + 1)..Len(ws) : ~ws[j].isPast /\ ~ws[j].isCurrent

\* C32: addSpan throws nothing and appends exactly one span: its startDate
\* is the parsed start, or the instant of the call when the start does not
\* parse; its endDate is null when the end is null or does not parse, and
\* otherwise the later of start and end; the spans before are unchanged.
C32_AddSpanAppends ==
    last.op = "addSpan" =>
        /\ last.threw = None
        /\ Len(lifeData.spans) = Len(last.spans) + 1
        /\ SubSeq(lifeData.spans, 1, Len(last.spans)) = last.spans
        /\ LET added == lifeData.spans[Len(lifeData.spans)]
               start == IF last.start.kind = "date" THEN last.start.t ELSE last.now
           IN  /\ added.startDate = start
               /\ added.endDate = IF last.end.kind = "date"
                                  THEN Some(Max(start, last.end.t))
                                  ELSE None

(***************************************************************************)
(* Claims about the span editor.                                           *)
(***************************************************************************)
spanIds(stored) == { stored[k].id : k \in 1..Len(stored) }
acceptedSubmit == last.op = "submit" /\ last.accepted
acceptedUpdate == acceptedSubmit /\ IsSome(last.editing)

\* C33: after any sequence of edit clicks, cancels, submissions and removals,
\* editingSpanId is null or the id of a span of the span list; an accepted
\* submission in edit mode leaves the list as long as it was, every span at
\* its position with its id, and every span but the edited one as it was;
\* every accepted submission leaves editingSpanId null
C33_EditorState ==
    /\ IsSome(editingSpanId) => Val(editingSpanId) \in spanIds(spans)
    /\ acceptedUpdate =>
         /\ Len(spans) = Len(last.spans)
         /\ \A k \in 1..Len(spans) :
              /\ spans[k].id = last.spans[k].id
              /\ spans[k].id # Val(last.editing) => spans[k] = last.spans[k]
    /\ acceptedSubmit => editingSpanId = None

\* an accepted update of the first of two spans, which changed it
C33_Witness ==
    /\ acceptedUpdate
    /\ Len(spans) = 2
    /\ Val(last.editing) = spans[1].id
    /\ spans[1].title # last.spans[1].title

\* a span removed while the form was editing it
C33_WitnessRemoved ==
    /\ last.op = "remove"
    /\ last.editing = Some(last.id)
    /\ Len(spans) = 1

\* C34: handleAddSpan rejects the submission, leaving the span list, the
\* persisted spans and the editing state as they were and rebuilding
\* nothing, when the title is empty, the start is empty, the end is empty
\* with 'ongoing' unchecked, the start does not parse, or a non-empty end
\* does not parse
mustReject(form) ==
    \/ trim(form.title) = ""
    \/ form.start = EmptyText
    \/ (form.end = EmptyText /\ ~form.ongoing)
    \/ form.start.kind # "date"
    \/ (form.end # EmptyText /\ form.end.kind # "date")

C34_Rejections ==
    (last.op = "submit" /\ mustReject(last.form)) =>
        /\ ~last.accepted
        /\ spans = last.spans
        /\ ~last.saved
        /\ editingSpanId = last.editing
        /\ ~last.rebuilt

\* C35: the span an accepted submission stores has a null end and openEnded
\* set, or an end and start <= end; a submission that is not ongoing and
\* starts after its end is stored with the two dates swapped
storedByLast ==
    IF IsSome(last.editing)
    THEN SelectSeq(spans, LAMBDA s : s.id = Val(last.editing))[1]
    ELSE spans[Len(spans)]

C35_StoredSpanOrdered ==
    acceptedSubmit =>
        /\ \/ (storedByLast.end = None /\ storedByLast.openEnded)
           \/ /\ IsSome(storedByLast.end)
              /\ ~isInvalid(storedByLast.end)
              /\ storedByLast.start <= Val(storedByLast.end)
        /\ ( /\ ~last.form.ongoing
             /\ last.form.start.kind = "date" /\ last.form.end.kind = "date"
             /\ last.form.start.n > last.form.end.n ) =>
               /\ storedByLast.start = last.form.end.n
               /\ storedByLast.end = Some(last.form.start.n)

(***************************************************************************)
(* Claims about the drag of the ViewportManager.                           *)
(***************************************************************************)
\* C36: a drag is active exactly from a pointer-down until the next
\* pointer-up or pointer-leave: the manager starts without a drag, a
\* pointer-down starts one, a pointer-up or pointer-leave ends it and no other
\* event or frame changes it; a pointer-move received while no drag is active
\* leaves the scale and translation of the camera and the target scale and
\* target translation as they were
C36_DragSpan ==
    IsSome(viewport) =>
        /\ last.op = "viewport" => ~vpNow.isDragging
        /\ last.op = "pointerdown" => vpNow.isDragging
        /\ last.op \in {"pointerup", "pointerleave"} => ~vpNow.isDragging
        /\ last.op \in {"wheel", "pointermove", "update", "render"} =>
              vpNow.isDragging = vpBefore.isDragging
        /\ (last.op = "pointermove" /\ ~vpBefore.isDragging) =>
              /\ container = last.cam
              /\ vpNow.targetScale = vpBefore.targetScale
              /\ vpNow.targetPosition = vpBefore.targetPosition

\* a pointer-move to another point right after the pointer-up that ended a drag
C36_Witness ==
    /\ IsSome(viewport)
    /\ last.op = "pointermove"
    /\ last.prevOp = "pointerup"
    /\ ~vpBefore.isDragging
    /\ IsSome(last.prev)
    /\ last.x # Val(last.prev).x

(***************************************************************************)
(* Claims about the event of today.                                        *)
(***************************************************************************)
built == last.op = "build"
\* the clock stayed in one week of the life while the snapshot was built
sameWeek ==
    weekIndexOf(last.today, lifeData.birthDate) = weekIndexOf(last.now, lifeData.birthDate)
hasToday(k) ==
    \E e \in 1..Len(weekOf(k).events) : weekOf(k).events[e].title = "Today"

\* C37: in every snapshot of buildLifeData built while the clock stays in
\* one week, the week flagged isCurrent holds the 'Today' event, and the
\* colour of its cell is the tint of its spans over the event colour, which
\* is not the colour of the current week
C37_CurrentWeekHasToday ==
    (built /\ sameWeek) =>
        \A k \in 1..Len(lifeData.weeks) :
            weekOf(k).isCurrent =>
                /\ hasToday(k)
                /\ cells[k].baseColor = tinted(defaultGridPalette.event, k)
                /\ defaultGridPalette.event # defaultGridPalette.current

\* a snapshot with a current week under a span, the clock having moved inside
\* the week between the reading of today and the reading of now
C37_Witness ==
    /\ built
    /\ sameWeek
    /\ last.today # last.now
    /\ \E k \in 1..Len(lifeData.weeks) :
         weekOf(k).isCurrent /\ Len(weekOf(k).spans) > 0

====
